---- MODULE Spec2Model ----
(***************************************************************************)
(* Model of GmailWorkflowSystem (src/src/google_cloud.py): the per-thread  *)
(* outreach workflow driven by Gmail push notifications.                   *)
(*                                                                         *)
(* Text is modelled as sequences of one-character strings so that          *)
(* str.lower() and the substring test `a in b` are computed, not assumed.  *)
(* Message and thread identifiers are strings; the step marker is the      *)
(* string the code builds, "<thread>_step_<n>".                            *)
(***************************************************************************)
EXTENDS Integers, Sequences, FiniteSets, TLC

(***************************************************************************)
(* Bounds of the explored input space.                                     *)
(***************************************************************************)
\* number of distinct genuine replies present in thread "A"
NumReplies == 5

(***************************************************************************)
(* Text helpers: str.lower() and the `in` substring test.                  *)
(***************************************************************************)
UpperChars == <<"A", "B", "E", "L", "M", "N", "O", "P", "R", "Y">>
LowerChars == <<"a", "b", "e", "l", "m", "n", "o", "p", "r", "y">>

Chars == {"A", "B", "E", "L", "M", "N", "O", "P", "R", "Y", "-",
          "a", "b", "e", "l", "m", "n", "o", "p", "r", "y"}

LowerChar ==
    [c \in Chars |->
        IF \E i \in 1..Len(UpperChars) : UpperChars[i] = c
        THEN LowerChars[CHOOSE i \in 1..Len(UpperChars) : UpperChars[i] = c]
        ELSE c]

\* s.lower()
Lower(s) == [i \in 1..Len(s) |-> LowerChar[s[i]]]

\* sub in s
Contains(sub, s) ==
    \E i \in 1..(Len(s) - Len(sub) + 1) : SubSeq(s, i, i + Len(sub) - 1) = sub

(***************************************************************************)
(* The mailbox held by the transport: every message it can return.         *)
(* from/to are the values of the first From/To header ("" when absent).    *)
(***************************************************************************)
BobFrom    == <<"B", "o", "b">>
MeTo       == <<"M", "e">>
AmyTo      == <<"a", "m", "y">>
SelfFrom   == <<"M", "E">>
RobotFrom  == <<"N", "o", "-", "R", "e", "p", "l", "y">>

ThreadIds == {"A", "B"}

Msg(id, t, f, to, pos) == [id |-> id, threadId |-> t, from |-> f, to |-> to, pos |-> pos]

\* pos is the arrival order of a message in the mailbox
GenuineReplies ==
    {Msg("g" \o ToString(i), "A", BobFrom, MeTo, 10 * i) : i \in 1..NumReplies}

OtherMessages ==
    { Msg("s1", "A", SelfFrom, MeTo, 11),          \* our own outgoing mail, echoed
      Msg("n1", "A", RobotFrom, MeTo, 12),         \* automated sender
      Msg("x1", "A", BobFrom, AmyTo, 13),          \* addressed to somebody else
      Msg("b1", "B", BobFrom, MeTo, 14) }

Mailbox == GenuineReplies \cup OtherMessages
MsgIds  == {m.id : m \in Mailbox}
MessageTable == [id \in MsgIds |-> CHOOSE m \in Mailbox : m.id = id]
MessageOf(id) == MessageTable[id]

\* the explored deployments: the threads the transport can open, the
\* messages it can return, the configured GMAIL_ADDRESS and the largest
\* number of messages one notification resolves to
Configs ==
    { [threads |-> {"A"}, ids |-> {m.id : m \in GenuineReplies}, env |-> MeTo, batch |-> 1],
      [threads |-> {"A", "B"}, ids |-> {"g1", "x1", "b1"}, env |-> MeTo, batch |-> 1],
      [threads |-> {"A"}, ids |-> {"g1", "g2", "s1", "n1", "x1"}, env |-> <<>>, batch |-> 1],
      [threads |-> {"A"}, ids |-> {"g1", "g2", "g3"}, env |-> MeTo, batch |-> 2] }

(***************************************************************************)
(* Program state.                                                          *)
(***************************************************************************)
VARIABLES
    workflows,            \* the 'workflows' table: tracked thread id -> row
    processed_messages,   \* self.processed_messages
    gmail_address,        \* os.getenv("GMAIL_ADDRESS", "")
    transport,            \* the transport: thread ids it can open, messages, listing size
    sent,                 \* follow-ups accepted by the transport, per thread and number
    reached,              \* calls of workflow_manager, per thread and step argument
    openers,              \* opening messages accepted by the transport, per thread
    caused,               \* per inbound message id: commits and sends it triggered
    writes,               \* per thread: the step values committed to the table, in order
    last,                 \* the last operation: its inputs and result
    workers,              \* subscriber callback threads: position and locals of each
    restarts,             \* number of process restarts so far
    app                   \* state of the modules beside the workflow system
                          \* (database.py, gmail_utils.py, chat_manager.py)

vars == <<workflows, processed_messages, gmail_address, transport, sent, reached,
          openers, caused, writes, last, workers, restarts, app>>

\* f"{thread_id}_step_{current_step}"
StepKey(thread_id, current_step) == thread_id \o "_step_" \o ToString(current_step)

(***************************************************************************)
(* The state threaded through one handler: st.wf is the table, st.proc the *)
(* processed set, st.sent / st.reached / st.caused / st.writes the         *)
(* observed effects.                                                       *)
(***************************************************************************)
\* variant: the set is emptied before a third key is recorded
MarkProcessed_evict(st, key) ==
    [st EXCEPT !.proc = IF Cardinality(@) >= 2 THEN {key} ELSE @ \cup {key}]

\* self.processed_messages.add(key)
MarkProcessed(st, key) == [st EXCEPT !.proc = @ \cup {key}]

RECURSIVE SortByPos(_)
SortByPos(S) ==
    IF S = {} THEN <<>>
    ELSE LET m == CHOOSE x \in S : \A y \in S : x.pos <= y.pos
         IN <<m>> \o SortByPos(S \ {m})

\* users().threads().get(id=thread_id)['messages']: the thread, oldest first
ThreadMessages(thread_id) ==
    SortByPos({m \in Mailbox : m.threadId = thread_id /\ m.id \in transport.ids})

\* users().getProfile()['emailAddress']
ProfileAddress == <<"M", "e">>

\* my_email = os.getenv("GMAIL_ADDRESS", "").lower(); if not my_email: the
\* profile is queried.  st.profile counts the getProfile queries
ResolveAddress(st) ==
    IF Lower(gmail_address) = <<>> THEN [st EXCEPT !.profile = @ + 1] ELSE st

\* variant: a thread without a row is read as a fresh conversation
load_workflow_state_default(wf, thread_id, query_ok) ==
    IF ~query_ok THEN <<>>
    ELSE IF thread_id \in DOMAIN wf THEN <<wf[thread_id]>>
    ELSE <<[thread_id |-> thread_id, step |-> 0, status |-> "sent_initial"]>>

\* result.data of SELECT * FROM workflows WHERE thread_id = ...; None is <<>>
load_workflow_state(wf, thread_id, query_ok) ==
    IF ~query_ok THEN <<>>
    ELSE IF thread_id \in DOMAIN wf THEN <<wf[thread_id]>>
    ELSE <<>>

\* variant: the write is not restricted to the row of thread_id
save_workflow_state_all(wf, thread_id, step, status, upsert_ok) ==
    IF ~upsert_ok THEN [raised |-> TRUE, wf |-> wf]
    ELSE [raised |-> FALSE,
          wf |-> [t \in DOMAIN wf \cup {thread_id} |->
                    [thread_id |-> t, step |-> step, status |-> status]]]

\* variant: the table is rewritten to hold the row of thread_id only
save_workflow_state_truncate(wf, thread_id, step, status, upsert_ok) ==
    IF ~upsert_ok THEN [raised |-> TRUE, wf |-> wf]
    ELSE [raised |-> FALSE,
          wf |-> [t \in {thread_id} |->
                    [thread_id |-> thread_id, step |-> step, status |-> status]]]

\* variant: insert instead of upsert, an existing thread id is a conflict
save_workflow_state_insert(wf, thread_id, step, status, upsert_ok) ==
    IF ~upsert_ok \/ thread_id \in DOMAIN wf THEN [raised |-> TRUE, wf |-> wf]
    ELSE [raised |-> FALSE,
          wf |-> [t \in DOMAIN wf \cup {thread_id} |->
                    IF t = thread_id
                    THEN [thread_id |-> thread_id, step |-> step, status |-> status]
                    ELSE wf[t]]]

\* upsert on thread_id; a storage error raises and writes nothing
save_workflow_state(wf, thread_id, step, status, upsert_ok) ==
    IF ~upsert_ok THEN [raised |-> TRUE, wf |-> wf]
    ELSE [raised |-> FALSE,
          wf |-> [t \in DOMAIN wf \cup {thread_id} |->
                    IF t = thread_id
                    THEN [thread_id |-> thread_id, step |-> step, status |-> status]
                    ELSE wf[t]]]

\* position in the thread of the most recent message not from us, 0 if none
LatestExternal(thread, my_email) ==
    LET ext == {i \in 1..Len(thread) : ~Contains(my_email, Lower(thread[i].from))}
    IN IF ext = {} THEN 0 ELSE CHOOSE i \in ext : \A j \in ext : j <= i

\* variant: a failed send is logged and not re-raised
send_reply_email_swallow(st, thread_id, body, trigger, fp) ==
    IF fp = "thread" THEN [raised |-> TRUE, st |-> st]
    ELSE
      LET thread == ThreadMessages(thread_id)
          env    == Lower(gmail_address)
      IN IF env = <<>> /\ fp = "profile2" THEN [raised |-> TRUE, st |-> st]
         ELSE
           LET my_email == IF env = <<>> THEN Lower(ProfileAddress) ELSE env
               latest   == LatestExternal(thread, my_email)
           IN IF latest = 0 THEN [raised |-> FALSE, st |-> st]
              ELSE IF fp = "send" THEN [raised |-> FALSE, st |-> st]
              ELSE [raised |-> FALSE,
                    st |-> [st EXCEPT !.sent[thread_id][body] = @ + 1,
                                      !.caused[trigger].sends = @ + 1]]

\* body is the number k of "Testing testing - Follow-up #k"; fp names the
\* external call that fails; st.target records the message whose From,
\* Subject and Message-ID headers the reply is built from
send_reply_email(st0, thread_id, body, trigger, fp) ==
    IF fp = "thread" THEN [raised |-> TRUE, st |-> st0]
    ELSE
      LET thread == ThreadMessages(thread_id)
          env    == Lower(gmail_address)
          st     == ResolveAddress(st0)
      IN IF env = <<>> /\ fp = "profile2" THEN [raised |-> TRUE, st |-> st]
         ELSE
           LET my_email == IF env = <<>> THEN Lower(ProfileAddress) ELSE env
               latest   == LatestExternal(thread, my_email)
           IN IF latest = 0 THEN [raised |-> FALSE, st |-> st]
              ELSE IF fp = "send" THEN [raised |-> TRUE, st |-> st]
              ELSE [raised |-> FALSE,
                    st |-> [st EXCEPT !.sent[thread_id][body] = @ + 1,
                                      !.caused[trigger].sends = @ + 1,
                                      !.target = thread[latest].id]]

\* one branch of workflow_manager: the send (body 0: none), then the commit;
\* an exception of either ends the call
StepBranch(st, thread_id, trigger, fp, body, new_step, new_status) ==
    LET r == IF body = 0 THEN [raised |-> FALSE, st |-> st]
             ELSE send_reply_email(st, thread_id, body, trigger, fp)
    IN IF r.raised THEN r.st
       ELSE LET s == save_workflow_state(r.st.wf, thread_id, new_step, new_status,
                                         fp # "save")
            IN IF s.raised THEN r.st
               ELSE [r.st EXCEPT !.wf = s.wf, !.caused[trigger].commits = @ + 1,
                                 !.writes[thread_id] = Append(@, s.wf[thread_id].step)]

\* variant: the re-check of the persisted step is missing
StepMismatch_never(current_workflow, step) == FALSE

\* current_workflow['step'] != step
StepMismatch(current_workflow, step) == current_workflow[1].step # step

\* variant: the branch for step 3 sends follow-up #3 once more
workflow_manager_resend(st0, thread_id, step, incoming_message, fp) ==
    LET id == incoming_message.id
        st == [st0 EXCEPT !.reached[thread_id][step] = @ + 1]
        current_workflow == load_workflow_state(st.wf, thread_id, fp # "reload")
    IN IF current_workflow = <<>> THEN st
       ELSE IF StepMismatch(current_workflow, step) THEN st
       ELSE IF step = 0 THEN StepBranch(st, thread_id, id, fp, 1, 1, "sent_followup_1")
       ELSE IF step = 1 THEN StepBranch(st, thread_id, id, fp, 2, 2, "sent_followup_2")
       ELSE IF step = 2 THEN StepBranch(st, thread_id, id, fp, 3, 3, "sent_followup_3")
       ELSE IF step = 3 THEN StepBranch(st, thread_id, id, fp, 3, 4, "completed")
       ELSE st

\* variant: the branch for step 1 commits step 3
workflow_manager_skip(st0, thread_id, step, incoming_message, fp) ==
    LET id == incoming_message.id
        st == [st0 EXCEPT !.reached[thread_id][step] = @ + 1]
        current_workflow == load_workflow_state(st.wf, thread_id, fp # "reload")
    IN IF current_workflow = <<>> THEN st
       ELSE IF StepMismatch(current_workflow, step) THEN st
       ELSE IF step = 0 THEN StepBranch(st, thread_id, id, fp, 1, 1, "sent_followup_1")
       ELSE IF step = 1 THEN StepBranch(st, thread_id, id, fp, 2, 3, "sent_followup_3")
       ELSE IF step = 2 THEN StepBranch(st, thread_id, id, fp, 3, 3, "sent_followup_3")
       ELSE IF step = 3 THEN StepBranch(st, thread_id, id, fp, 0, 4, "completed")
       ELSE st

\* variant: an unexpected step is reset to the start of the conversation
workflow_manager_repair(st0, thread_id, step, incoming_message, fp) ==
    LET id == incoming_message.id
        st == [st0 EXCEPT !.reached[thread_id][step] = @ + 1]
        current_workflow == load_workflow_state(st.wf, thread_id, fp # "reload")
    IN IF current_workflow = <<>> THEN st
       ELSE IF StepMismatch(current_workflow, step) THEN st
       ELSE IF step = 0 THEN StepBranch(st, thread_id, id, fp, 1, 1, "sent_followup_1")
       ELSE IF step = 1 THEN StepBranch(st, thread_id, id, fp, 2, 2, "sent_followup_2")
       ELSE IF step = 2 THEN StepBranch(st, thread_id, id, fp, 3, 3, "sent_followup_3")
       ELSE IF step = 3 THEN StepBranch(st, thread_id, id, fp, 0, 4, "completed")
       ELSE StepBranch(st, thread_id, id, fp, 0, 0, "sent_initial")

\* variant: the last branch commits step 4 under the status of step 3
workflow_manager_mislabel(st0, thread_id, step, incoming_message, fp) ==
    LET id == incoming_message.id
        st == [st0 EXCEPT !.reached[thread_id][step] = @ + 1]
        current_workflow == load_workflow_state(st.wf, thread_id, fp # "reload")
    IN IF current_workflow = <<>> THEN st
       ELSE IF StepMismatch(current_workflow, step) THEN st
       ELSE IF step = 0 THEN StepBranch(st, thread_id, id, fp, 1, 1, "sent_followup_1")
       ELSE IF step = 1 THEN StepBranch(st, thread_id, id, fp, 2, 2, "sent_followup_2")
       ELSE IF step = 2 THEN StepBranch(st, thread_id, id, fp, 3, 3, "sent_followup_3")
       ELSE IF step = 3 THEN StepBranch(st, thread_id, id, fp, 0, 4, "sent_followup_3")
       ELSE st

workflow_manager(st0, thread_id, step, incoming_message, fp) ==
    LET id == incoming_message.id
        st == [st0 EXCEPT !.reached[thread_id][step] = @ + 1]
        current_workflow == load_workflow_state(st.wf, thread_id, fp # "reload")
    IN IF current_workflow = <<>> THEN st
       ELSE IF StepMismatch(current_workflow, step) THEN st
       ELSE IF step = 0 THEN StepBranch(st, thread_id, id, fp, 1, 1, "sent_followup_1")
       ELSE IF step = 1 THEN StepBranch(st, thread_id, id, fp, 2, 2, "sent_followup_2")
       ELSE IF step = 2 THEN StepBranch(st, thread_id, id, fp, 3, 3, "sent_followup_3")
       ELSE IF step = 3 THEN StepBranch(st, thread_id, id, fp, 0, 4, "completed")
       ELSE st

NoReply1 == <<"n", "o", "r", "e", "p", "l", "y">>
NoReply2 == <<"n", "o", "-", "r", "e", "p", "l", "y">>

\* variant: the message-id check is missing
AlreadyProcessed_never(proc, message_id) == FALSE

\* message_id in self.processed_messages
AlreadyProcessed(proc, message_id) == message_id \in proc

\* variant: the From header is compared without lower()
IsSelfEcho_cased(my_email, from_header) ==
    my_email # <<>> /\ Contains(my_email, from_header)

\* my_email and my_email in from_header.lower()
IsSelfEcho(my_email, from_header) ==
    my_email # <<>> /\ Contains(my_email, Lower(from_header))

\* variant: only the spelling 'noreply' is recognised
IsNoReply_single(from_header) == Contains(NoReply1, Lower(from_header))

\* 'noreply' in from_header.lower() or 'no-reply' in from_header.lower()
IsNoReply(from_header) ==
    Contains(NoReply1, Lower(from_header)) \/ Contains(NoReply2, Lower(from_header))

\* variant: the recipient check is missing
IsMisrouted_never(my_email, to_header) == FALSE

\* my_email and my_email not in to_header.lower()
IsMisrouted(my_email, to_header) ==
    my_email # <<>> /\ ~Contains(my_email, Lower(to_header))

\* the branch of the filter chain a message takes, as its log line names it:
\* "Outgoing message from self", "Noreply message", "Message not addressed
\* to us", "MESSAGE PASSED ALL FILTERS"
Classification(my_email, from_header, to_header) ==
    IF IsSelfEcho(my_email, from_header) THEN "SelfEcho"
    ELSE IF IsNoReply(from_header) THEN "Automated"
    ELSE IF IsMisrouted(my_email, to_header) THEN "MisRouted"
    ELSE "Genuine"

\* current_step >= 4 or status == 'completed'
IsCompleted(current_step, status) == current_step >= 4 \/ status = "completed"

\* variant: the step-marker check is missing
StepAlreadyProcessed_never(proc, thread_id, current_step) == FALSE

\* last_processed_step_key in self.processed_messages
StepAlreadyProcessed(proc, thread_id, current_step) ==
    StepKey(thread_id, current_step) \in proc

\* variant: one branch for every step, "send unless last, commit step + 1"
workflow_manager_generic(st0, thread_id, step, incoming_message, fp) ==
    LET id == incoming_message.id
        st == [st0 EXCEPT !.reached[thread_id][step] = @ + 1]
        current_workflow == load_workflow_state(st.wf, thread_id, fp # "reload")
    IN IF current_workflow = <<>> THEN st
       ELSE IF StepMismatch(current_workflow, step) THEN st
       ELSE IF step < 3
            THEN StepBranch(st, thread_id, id, fp, step + 1, step + 1,
                            "sent_followup_" \o ToString(step + 1))
       ELSE StepBranch(st, thread_id, id, fp, 0, step + 1, "completed")

\* variant: no completed-workflow guard, and the one-branch workflow manager
process_incoming_message_unguarded(st, message, fp) ==
    LET thread_id  == message.threadId
        message_id == message.id
        env        == Lower(gmail_address)
        my_email   == IF env = <<>> THEN Lower(ProfileAddress) ELSE env
    IN IF AlreadyProcessed(st.proc, message_id) THEN st
       ELSE IF env = <<>> /\ fp = "profile" THEN st
       ELSE IF IsSelfEcho(my_email, message.from) THEN MarkProcessed(st, message_id)
       ELSE IF IsNoReply(message.from) THEN MarkProcessed(st, message_id)
       ELSE IF IsMisrouted(my_email, message.to) THEN MarkProcessed(st, message_id)
       ELSE
         LET workflow_state == load_workflow_state(st.wf, thread_id, fp # "load")
         IN IF workflow_state = <<>> THEN MarkProcessed(st, message_id)
            ELSE
              LET current_step == workflow_state[1].step
              IN IF StepAlreadyProcessed(st.proc, thread_id, current_step) THEN st
                 ELSE workflow_manager_generic(
                        MarkProcessed(MarkProcessed(st, message_id),
                                      StepKey(thread_id, current_step)),
                        thread_id, current_step, message, fp)

\* variant: only the message id is recorded before workflow_manager
process_incoming_message_nomark(st, message, fp) ==
    LET thread_id  == message.threadId
        message_id == message.id
        env        == Lower(gmail_address)
        my_email   == IF env = <<>> THEN Lower(ProfileAddress) ELSE env
    IN IF AlreadyProcessed(st.proc, message_id) THEN st
       ELSE IF env = <<>> /\ fp = "profile" THEN st
       ELSE IF IsSelfEcho(my_email, message.from) THEN MarkProcessed(st, message_id)
       ELSE IF IsNoReply(message.from) THEN MarkProcessed(st, message_id)
       ELSE IF IsMisrouted(my_email, message.to) THEN MarkProcessed(st, message_id)
       ELSE
         LET workflow_state == load_workflow_state(st.wf, thread_id, fp # "load")
         IN IF workflow_state = <<>> THEN MarkProcessed(st, message_id)
            ELSE
              LET current_step == workflow_state[1].step
                  status       == workflow_state[1].status
              IN IF IsCompleted(current_step, status) THEN MarkProcessed(st, message_id)
                 ELSE IF StepAlreadyProcessed(st.proc, thread_id, current_step) THEN st
                 ELSE workflow_manager(MarkProcessed(st, message_id),
                                       thread_id, current_step, message, fp)

\* variant: a failed lookup leaves the message unrecorded
process_incoming_message_retry(st0, message, fp) ==
    LET thread_id  == message.threadId
        message_id == message.id
        env        == Lower(gmail_address)
        my_email   == IF env = <<>> THEN Lower(ProfileAddress) ELSE env
        st         == ResolveAddress(st0)
    IN IF AlreadyProcessed(st0.proc, message_id) THEN st0
       ELSE IF env = <<>> /\ fp = "profile" THEN st
       ELSE IF IsSelfEcho(my_email, message.from) THEN MarkProcessed(st, message_id)
       ELSE IF IsNoReply(message.from) THEN MarkProcessed(st, message_id)
       ELSE IF IsMisrouted(my_email, message.to) THEN MarkProcessed(st, message_id)
       ELSE
         LET workflow_state == load_workflow_state(st.wf, thread_id, fp # "load")
         IN IF workflow_state = <<>>
            THEN IF fp = "load" THEN st ELSE MarkProcessed(st, message_id)
            ELSE
              LET current_step == workflow_state[1].step
                  status       == workflow_state[1].status
              IN IF IsCompleted(current_step, status) THEN MarkProcessed(st, message_id)
                 ELSE IF StepAlreadyProcessed(st.proc, thread_id, current_step) THEN st
                 ELSE workflow_manager(
                        MarkProcessed(MarkProcessed(st, message_id),
                                      StepKey(thread_id, current_step)),
                        thread_id, current_step, message, fp)

process_incoming_message(st0, message, fp) ==
    LET thread_id  == message.threadId
        message_id == message.id
        env        == Lower(gmail_address)
        my_email   == IF env = <<>> THEN Lower(ProfileAddress) ELSE env
        st         == ResolveAddress(st0)
    IN IF AlreadyProcessed(st0.proc, message_id) THEN st0
       ELSE IF env = <<>> /\ fp = "profile" THEN st
       ELSE IF IsSelfEcho(my_email, message.from) THEN MarkProcessed(st, message_id)
       ELSE IF IsNoReply(message.from) THEN MarkProcessed(st, message_id)
       ELSE IF IsMisrouted(my_email, message.to) THEN MarkProcessed(st, message_id)
       ELSE
         LET workflow_state == load_workflow_state(st.wf, thread_id, fp # "load")
         IN IF workflow_state = <<>> THEN MarkProcessed(st, message_id)
            ELSE
              LET current_step == workflow_state[1].step
                  status       == workflow_state[1].status
              IN IF IsCompleted(current_step, status) THEN MarkProcessed(st, message_id)
                 ELSE IF StepAlreadyProcessed(st.proc, thread_id, current_step) THEN st
                 ELSE workflow_manager(
                        MarkProcessed(MarkProcessed(st, message_id),
                                      StepKey(thread_id, current_step)),
                        thread_id, current_step, message, fp)

(***************************************************************************)
(* pubsub_listener.  The transport's answers are inputs:                   *)
(*   hist.kind   "error" | "empty" (no 'history' key) | "history"          *)
(*   hist.ids    message ids of the messagesAdded entries, in order        *)
(*   recent.kind "error" | "nomessages" | "messages"                       *)
(*   recent.ids  the listed message ids, newest first                      *)
(*   items[i]    for the i-th resolved message: fp, the external call that *)
(*               fails while it is handled, and age, now - internalDate    *)
(***************************************************************************)
RecencyWindowMs == 300000
RecentLimit == 5
HistoryLookback == 100

Max(a, b) == IF a >= b THEN a ELSE b
Min(a, b) == IF a <= b THEN a ELSE b

\* the stored checkpoint: "return None" (0 stands for None)
get_last_history_id == 0

\* "Would save history ID": prints, stores nothing
save_last_history_id(st, history_id) == st

\* stored_history_id if stored_history_id else str(max(1, int(history_id) - 100))
StartHistoryId(history_id) ==
    LET stored_history_id == get_last_history_id
    IN IF stored_history_id # 0 THEN stored_history_id
       ELSE Max(1, history_id - HistoryLookback)

\* self.process_incoming_message('me', full_message); st.handed records
\* the ids of the messages handed over, st.order the order of the calls
Handle(st, id, fp) ==
    [process_incoming_message(st, MessageOf(id), fp)
       EXCEPT !.handed = @ \cup {id}, !.order = Append(@, id)]

\* variant: the first message that fails ends the loop
NextAdded_abort(ids, items, i) ==
    IF items[i].fp # "none" THEN Len(ids) + 1 ELSE i + 1

\* the message the loop over messagesAdded goes on with after the i-th:
\* the try/except is inside the loop
NextAdded(ids, items, i) == i + 1

RECURSIVE ProcessAdded(_, _, _, _)
ProcessAdded(st, ids, items, i) ==
    IF i > Len(ids) THEN st
    ELSE IF items[i].fp = "get"
         THEN ProcessAdded(st, ids, items, NextAdded(ids, items, i))
         ELSE ProcessAdded(Handle(st, ids[i], items[i].fp), ids, items,
                           NextAdded(ids, items, i))

\* variant: a message exactly five minutes old still counts as recent
IsRecent_inclusive(time_diff) == time_diff <= RecencyWindowMs

\* time_diff < 5 * 60 * 1000
IsRecent(time_diff) == time_diff < RecencyWindowMs

RECURSIVE ProcessRecent(_, _, _, _)
ProcessRecent(st, ids, items, i) ==
    IF i > Len(ids) THEN st
    ELSE IF items[i].fp = "get"
         THEN ProcessRecent(st, ids, items, i + 1)
         ELSE IF IsRecent(items[i].age)
         THEN ProcessRecent(Handle(st, ids[i], items[i].fp), ids, items, i + 1)
         ELSE ProcessRecent(st, ids, items, i + 1)

\* history_id = 0 stands for a notification without historyId; decodable:
\* the payload is UTF-8 text holding a JSON object.  st.start records the
\* startHistoryId of the history request, st.listed that messages().list
\* was called
pubsub_listener(st, decodable, history_id, hist, recent, items) ==
    IF ~decodable THEN st
    ELSE IF history_id = 0 THEN st
    ELSE
      LET asked == [st EXCEPT !.start = StartHistoryId(history_id)]
      IN IF hist.kind = "error" THEN asked
         ELSE
           LET saved == save_last_history_id(asked, history_id)
           IN IF hist.kind = "empty"
              THEN LET listing == [saved EXCEPT !.listed = TRUE]
                   IN IF recent.kind = "error" THEN listing
                      ELSE IF recent.kind = "nomessages" THEN listing
                      ELSE ProcessRecent(listing,
                                         SubSeq(recent.ids, 1,
                                                Min(RecentLimit, Len(recent.ids))),
                                         items, 1)
              ELSE ProcessAdded(saved, hist.ids, items, 1)

(***************************************************************************)
(* send_initial_email.  outcome names the external call that fails.        *)
(***************************************************************************)
\* variant: a failed commit is swallowed and the thread id returned
send_initial_email_swallow(wf, thread_id, outcome) ==
    IF outcome = "send" THEN [raised |-> TRUE, sent |-> FALSE, wf |-> wf]
    ELSE LET s == save_workflow_state(wf, thread_id, 0, "sent_initial", outcome # "save")
         IN [raised |-> FALSE, sent |-> TRUE, wf |-> s.wf]

\* variant: the record is written before the opener is sent
send_initial_email_savefirst(wf, thread_id, outcome) ==
    LET s == save_workflow_state(wf, thread_id, 0, "sent_initial", outcome # "save")
    IN IF s.raised THEN [raised |-> TRUE, sent |-> FALSE, wf |-> wf]
       ELSE IF outcome = "send" THEN [raised |-> TRUE, sent |-> FALSE, wf |-> s.wf]
       ELSE [raised |-> FALSE, sent |-> TRUE, wf |-> s.wf]

send_initial_email(wf, thread_id, outcome) ==
    IF outcome = "send" THEN [raised |-> TRUE, sent |-> FALSE, wf |-> wf]
    ELSE LET s == save_workflow_state(wf, thread_id, 0, "sent_initial", outcome # "save")
         IN [raised |-> s.raised, sent |-> TRUE, wf |-> s.wf]

(***************************************************************************)
(* Specification: one process lifetime, handlers run one at a time.        *)
(***************************************************************************)
HistoryIds == {150}

\* messages the transport can return: those of threads that exist
Deliverable == {id \in transport.ids : openers[MessageOf(id).threadId] > 0}

\* history listings are chronological, the recent listing is newest first
RECURSIVE Reverse(_)
Reverse(s) == IF s = <<>> THEN <<>> ELSE Append(Reverse(Tail(s)), Head(s))

Listings(S, n) ==
    {[i \in 1..Len(l) |-> l[i].id] :
        l \in {SortByPos({MessageOf(id) : id \in T}) :
                 T \in {U \in SUBSET S : Cardinality(U) <= n}}}

\* the external calls made while message id is handled (one of them may
\* fail), and in the fallback the age of the message
CallsFor ==
    [id \in MsgIds |->
      [unset \in BOOLEAN |->
        LET m == MessageOf(id)
            own == Lower(ProfileAddress)
            filtered == \/ Contains(own, Lower(m.from))
                        \/ Contains(NoReply1, Lower(m.from))
                        \/ Contains(NoReply2, Lower(m.from))
                        \/ ~Contains(own, Lower(m.to))
        IN {"none", "get"}
             \cup (IF unset THEN {"profile"} ELSE {})
             \cup (IF filtered THEN {} ELSE {"load", "reload", "thread", "send", "save"})
             \cup (IF ~filtered /\ unset THEN {"profile2"} ELSE {})]]

ItemChoices(id, fallback) ==
    {[fp |-> f, age |-> 0] : f \in CallsFor[id][gmail_address = <<>>]}
      \cup (IF fallback THEN {[fp |-> "none", age |-> RecencyWindowMs]} ELSE {})

RECURSIVE Items(_, _)
Items(ids, fallback) ==
    IF ids = <<>> THEN {<<>>}
    ELSE {<<c>> \o rest : c \in ItemChoices(Head(ids), fallback),
                          rest \in Items(Tail(ids), fallback)}

AllOk(items) == \A i \in 1..Len(items) : items[i].fp = "none" /\ items[i].age = 0

NoHist   == [kind |-> "error", ids |-> <<>>]
NoRecent == [kind |-> "error", ids |-> <<>>]

Current == [wf |-> workflows, proc |-> processed_messages, sent |-> sent,
            reached |-> reached, caused |-> caused, writes |-> writes,
            start |-> 0, listed |-> FALSE, handed |-> {}, target |-> "",
            profile |-> 0, order |-> <<>>]

SeqToSet(q) == {q[i] : i \in 1..Len(q)}

Init ==
    /\ workflows = <<>>
    /\ processed_messages = {}
    /\ \E c \in Configs :
         /\ gmail_address = c.env
         /\ transport = [threads |-> c.threads, ids |-> c.ids, batch |-> c.batch]
    /\ sent = [t \in ThreadIds |-> [k \in 1..3 |-> 0]]
    /\ reached = [t \in ThreadIds |-> [n \in 0..4 |-> 0]]
    /\ openers = [t \in ThreadIds |-> 0]
    /\ caused = [id \in MsgIds |-> [commits |-> 0, sends |-> 0]]
    /\ writes = [t \in ThreadIds |-> <<>>]
    /\ last = [op |-> "init", ids |-> <<>>, ok |-> TRUE, fresh |-> FALSE,
               again |-> FALSE, ret |-> "", step |-> 0]
    /\ workers = <<>>
    /\ restarts = 0
    /\ app = <<>>

\* a notification was handled.  ids: the messages it resolved to; ok: no
\* external call failed and no message was too old; fresh: none of the
\* messages was in the processed set; again: the previous operation was a
\* notification resolving to the same messages
Apply(st, ids, ok) ==
    /\ workflows' = st.wf
    /\ processed_messages' = st.proc
    /\ sent' = st.sent
    /\ reached' = st.reached
    /\ caused' = st.caused
    /\ writes' = st.writes
    /\ last' = [op |-> "notify", ids |-> ids, ok |-> ok,
                fresh |-> (SeqToSet(ids) \cap processed_messages = {}),
                again |-> (last.op = "notify" /\ last.ids = ids /\ ids # <<>>),
                ret |-> "", step |-> 0]
    /\ UNCHANGED <<gmail_address, transport, openers, workers, restarts, app>>

StartWorkflow ==
    \E outcome \in {"none", "send", "save"} :
      \E thread_id \in {t \in transport.threads : openers[t] = 0} :
        LET r == send_initial_email(workflows, thread_id, outcome)
        IN /\ workflows' = r.wf
           /\ openers' = IF r.sent THEN [openers EXCEPT ![thread_id] = @ + 1] ELSE openers
           /\ writes' = IF r.sent /\ thread_id \in DOMAIN r.wf
                         THEN [writes EXCEPT ![thread_id] = Append(@, r.wf[thread_id].step)]
                         ELSE writes
           /\ last' = [op |-> "start", ids |-> <<>>, ok |-> (outcome = "none"),
                       fresh |-> FALSE, again |-> FALSE,
                       ret |-> IF r.raised THEN "" ELSE thread_id, step |-> 0]
           /\ UNCHANGED <<processed_messages, gmail_address, transport, sent, reached,
                          caused, workers, restarts, app>>

NotifyMalformed ==
    \E decodable \in BOOLEAN :
      Apply(pubsub_listener(Current, decodable, 0, NoHist, NoRecent, <<>>), <<>>, FALSE)

NotifyHistoryError ==
    \E h \in HistoryIds :
      Apply(pubsub_listener(Current, TRUE, h, NoHist, NoRecent, <<>>), <<>>, FALSE)

NotifyHistory ==
    \E h \in HistoryIds :
      \E ids \in Listings(Deliverable, transport.batch) :
        \E items \in Items(ids, FALSE) :
          Apply(pubsub_listener(Current, TRUE, h, [kind |-> "history", ids |-> ids],
                                NoRecent, items), ids, AllOk(items))

NotifyFallback ==
    \E h \in HistoryIds :
      \/ \E k \in {"error", "nomessages"} :
           Apply(pubsub_listener(Current, TRUE, h, [kind |-> "empty", ids |-> <<>>],
                                 [kind |-> k, ids |-> <<>>], <<>>), <<>>, k = "nomessages")
      \/ \E asc \in Listings(Deliverable, transport.batch) :
           \E items \in Items(Reverse(asc), TRUE) :
             Apply(pubsub_listener(Current, TRUE, h, [kind |-> "empty", ids |-> <<>>],
                                   [kind |-> "messages", ids |-> Reverse(asc)], items),
                   Reverse(asc), AllOk(items))

Next ==
    \/ StartWorkflow
    \/ NotifyMalformed
    \/ NotifyHistoryError
    \/ NotifyHistory
    \/ NotifyFallback

Spec == Init /\ [][Next]_vars

(***************************************************************************)
(* Specification of workflow_manager alone: the table holds any rows, and  *)
(* workflow_manager is called with any thread, step and inbound message.   *)
(***************************************************************************)
\* number of workflow_manager calls explored from one table
MaxCalls == 1

StatusOf(step) ==
    IF step = 0 THEN "sent_initial"
    ELSE IF step = 4 THEN "completed"
    ELSE "sent_followup_" \o ToString(step)

Tables ==
    UNION {[D -> {[thread_id |-> t, step |-> n, status |-> StatusOf(n)] :
                    t \in ThreadIds, n \in 0..4}] : D \in SUBSET ThreadIds}

RECURSIVE SumReached(_)
SumReached(S) ==
    IF S = {} THEN 0
    ELSE LET x == CHOOSE y \in S : TRUE
         IN reached[x[1]][x[2]] + SumReached(S \ {x})

CallCount == SumReached(ThreadIds \X (0..4))

InitWM ==
    /\ workflows \in {w \in Tables : \A t \in DOMAIN w : w[t].thread_id = t}
    /\ processed_messages = {}
    /\ gmail_address = MeTo
    /\ transport = [threads |-> ThreadIds, ids |-> MsgIds, batch |-> 1]
    /\ sent = [t \in ThreadIds |-> [k \in 1..3 |-> 0]]
    /\ reached = [t \in ThreadIds |-> [n \in 0..4 |-> 0]]
    /\ openers = [t \in ThreadIds |-> IF t \in DOMAIN workflows THEN 1 ELSE 0]
    /\ caused = [id \in MsgIds |-> [commits |-> 0, sends |-> 0]]
    /\ writes = [t \in ThreadIds |-> <<>>]
    /\ last = [op |-> "init", ids |-> <<>>, ok |-> TRUE, fresh |-> FALSE,
               again |-> FALSE, ret |-> "", step |-> 0]
    /\ workers = <<>>
    /\ restarts = 0
    /\ app = <<>>

CallWorkflowManager ==
    /\ CallCount < MaxCalls
    /\ \E id \in MsgIds, step \in 0..4 :
         \E fp \in {"none", "reload", "thread", "send", "save"} :
           LET thread_id == MessageOf(id).threadId
               st == workflow_manager(Current, thread_id, step, MessageOf(id), fp)
           IN /\ workflows' = st.wf
              /\ processed_messages' = st.proc
              /\ sent' = st.sent
              /\ reached' = st.reached
              /\ caused' = st.caused
              /\ writes' = st.writes
              /\ last' = [op |-> "wm", ids |-> <<id>>, ok |-> (fp = "none"),
                          fresh |-> FALSE, again |-> FALSE, ret |-> thread_id,
                          step |-> step]
              /\ UNCHANGED <<gmail_address, transport, openers, workers, restarts, app>>

NextWM == CallWorkflowManager

SpecWM == InitWM /\ [][NextWM]_vars

(***************************************************************************)
(* Specification of the subscription callback: the notification payload,   *)
(* the transport's answers and the acknowledgement are observed in last.   *)
(***************************************************************************)
\* historyId values carried by notifications
NotificationIds == {50, 150, 151}

\* variant: a notification without historyId is handed back for redelivery
callback_strict(st, data, history_id, hist, recent, items) ==
    IF data \in {"undecodable", "nohistory"} THEN [ack |-> "nack", st |-> st]
    ELSE [ack |-> "ack",
          st  |-> pubsub_listener(st, data # "malformed", history_id,
                                  hist, recent, items)]

\* callback(message).  data: "undecodable" (bytes that are not UTF-8),
\* "malformed" (text that is not a JSON object), "nohistory" (no historyId)
\* or "notification"
callback(st, data, history_id, hist, recent, items) ==
    IF data = "undecodable" THEN [ack |-> "nack", st |-> st]
    ELSE [ack |-> "ack",
          st  |-> pubsub_listener(st, data # "malformed",
                                  IF data = "nohistory" THEN 0 ELSE history_id,
                                  hist, recent, items)]

InitCB ==
    /\ Init
    /\ transport.threads = {"A", "B"}

ApplyCB(r, data, history_id, hist, recent, ids, ok) ==
    /\ workflows' = r.st.wf
    /\ processed_messages' = r.st.proc
    /\ sent' = r.st.sent
    /\ reached' = r.st.reached
    /\ caused' = r.st.caused
    /\ writes' = r.st.writes
    /\ last' = [op |-> "callback", data |-> data, h |-> history_id,
                hist |-> hist, recent |-> recent, ids |-> ids, ok |-> ok,
                start |-> r.st.start, listed |-> r.st.listed, ack |-> r.ack,
                stored |-> get_last_history_id, ret |-> ""]
    /\ UNCHANGED <<gmail_address, transport, openers, workers, restarts, app>>

CallbackBadPayload ==
    \E data \in {"undecodable", "malformed", "nohistory"} :
      ApplyCB(callback(Current, data, 0, NoHist, NoRecent, <<>>),
              data, 0, "none", "none", <<>>, FALSE)

CallbackHistoryError ==
    \E h \in NotificationIds :
      ApplyCB(callback(Current, "notification", h, NoHist, NoRecent, <<>>),
              "notification", h, "error", "none", <<>>, FALSE)

CallbackHistory ==
    \E h \in NotificationIds :
      \E ids \in Listings(Deliverable, transport.batch) :
        \E items \in Items(ids, FALSE) :
          ApplyCB(callback(Current, "notification", h,
                           [kind |-> "history", ids |-> ids], NoRecent, items),
                  "notification", h, "history", "none", ids, AllOk(items))

CallbackFallback ==
    \E h \in NotificationIds :
      \/ \E k \in {"error", "nomessages"} :
           ApplyCB(callback(Current, "notification", h,
                            [kind |-> "empty", ids |-> <<>>],
                            [kind |-> k, ids |-> <<>>], <<>>),
                   "notification", h, "empty", k, <<>>, k = "nomessages")
      \/ \E asc \in Listings(Deliverable, transport.batch) :
           \E items \in Items(Reverse(asc), TRUE) :
             ApplyCB(callback(Current, "notification", h,
                              [kind |-> "empty", ids |-> <<>>],
                              [kind |-> "messages", ids |-> Reverse(asc)], items),
                     "notification", h, "empty", "messages", Reverse(asc), AllOk(items))

NextCB ==
    \/ StartWorkflow
    \/ CallbackBadPayload
    \/ CallbackHistoryError
    \/ CallbackHistory
    \/ CallbackFallback

SpecCB == InitCB /\ [][NextCB]_vars

(***************************************************************************)
(* Specification with process restarts: a new process starts with an empty *)
(* processed set, the table and the mailbox are kept.                      *)
(***************************************************************************)
\* number of restarts explored
MaxRestarts == 1

InitRestart ==
    /\ Init
    /\ transport.threads = {"A", "B"}

\* GmailWorkflowSystem(): self.processed_messages = set()
Restart ==
    /\ restarts < MaxRestarts
    /\ restarts' = restarts + 1
    /\ processed_messages' = {}
    /\ last' = [op |-> "restart", ids |-> <<>>, ok |-> TRUE, fresh |-> FALSE,
                again |-> FALSE, ret |-> "", step |-> 0]
    /\ UNCHANGED <<workflows, gmail_address, transport, sent, reached, openers,
                   caused, writes, workers, app>>

NextRestart ==
    \/ Next
    \/ Restart

SpecRestart == InitRestart /\ [][NextRestart]_vars

(***************************************************************************)
(* Specification over any stored row: the table is shared with whatever    *)
(* else writes to it, so the row of a thread may hold any step and status. *)
(***************************************************************************)
StoredSteps == -1..5

StoredStatuses == {"sent_initial", "completed", "unknown"}

InitStore ==
    /\ \E n \in StoredSteps, status \in StoredStatuses :
         workflows = [t \in {"A"} |-> [thread_id |-> t, step |-> n, status |-> status]]
    /\ processed_messages = {}
    /\ gmail_address = MeTo
    /\ transport = [threads |-> {"A", "B"}, ids |-> {"g1", "g2"}, batch |-> 1]
    /\ sent = [t \in ThreadIds |-> [k \in 1..3 |-> 0]]
    /\ reached = [t \in ThreadIds |-> [n \in StoredSteps |-> 0]]
    /\ openers = [t \in ThreadIds |-> IF t \in DOMAIN workflows THEN 1 ELSE 0]
    /\ caused = [id \in MsgIds |-> [commits |-> 0, sends |-> 0]]
    /\ writes = [t \in ThreadIds |-> <<>>]
    /\ last = [op |-> "init", ids |-> <<>>, ok |-> TRUE, fresh |-> FALSE,
               again |-> FALSE, ret |-> "", step |-> 0]
    /\ workers = <<>>
    /\ restarts = 0
    /\ app = <<>>

SpecStore == InitStore /\ [][Next]_vars

(***************************************************************************)
(* Specification of the filter chain: process_incoming_message is applied  *)
(* to messages with any From and To header.                                *)
(***************************************************************************)
\* the effects a conversation at the given step has had so far
SentUpTo(step)   == [k \in 1..3 |-> IF k <= step THEN 1 ELSE 0]
WritesUpTo(step) == [i \in 1..(step + 1) |-> i - 1]

FromValues ==
    { BobFrom, SelfFrom, RobotFrom, NoReply1, <<>>,
      <<"M", "e", "-", "N", "o", "R", "e", "p", "l", "y">>,
      <<"N", "o", "-", "R", "e", "p", "l", "y", "-", "m", "e">> }

ToValues == { MeTo, AmyTo, <<"M", "E">>, <<"a", "m", "e">>, <<>> }

InitClassify ==
    /\ workflows \in {w \in Tables : DOMAIN w = {"A"} /\ w["A"].thread_id = "A"}
    /\ processed_messages = {}
    /\ gmail_address \in {MeTo, <<>>}
    /\ transport = [threads |-> {"A"}, ids |-> {"g1", "g2"}, batch |-> 1]
    /\ sent = [t \in ThreadIds |->
                IF t \in DOMAIN workflows THEN SentUpTo(workflows[t].step)
                ELSE [k \in 1..3 |-> 0]]
    /\ reached = [t \in ThreadIds |-> [n \in 0..4 |-> 0]]
    /\ openers = [t \in ThreadIds |-> IF t \in DOMAIN workflows THEN 1 ELSE 0]
    /\ caused = [id \in MsgIds |-> [commits |-> 0, sends |-> 0]]
    /\ writes = [t \in ThreadIds |->
                  IF t \in DOMAIN workflows THEN WritesUpTo(workflows[t].step)
                  ELSE <<>>]
    /\ last = [op |-> "init", ids |-> <<>>, ok |-> TRUE, fresh |-> FALSE,
               again |-> FALSE, ret |-> "", step |-> 0]
    /\ workers = <<>>
    /\ restarts = 0
    /\ app = <<>>

ClassifyMessage ==
    \E id \in transport.ids, from_header \in FromValues, to_header \in ToValues :
      LET message == Msg(id, "A", from_header, to_header, MessageOf(id).pos)
          env == Lower(gmail_address)
          my_email == IF env = <<>> THEN Lower(ProfileAddress) ELSE env
          st == process_incoming_message(Current, message, "none")
      IN /\ workflows' = st.wf
         /\ processed_messages' = st.proc
         /\ sent' = st.sent
         /\ reached' = st.reached
         /\ caused' = st.caused
         /\ writes' = st.writes
         /\ last' = [op |-> "classify", ids |-> <<id>>, from |-> from_header,
                     to |-> to_header,
                     class |-> Classification(my_email, from_header, to_header),
                     fresh |-> id \notin processed_messages, ret |-> ""]
         /\ UNCHANGED <<gmail_address, transport, openers, workers, restarts, app>>

NextClassify == ClassifyMessage

SpecClassify == InitClassify /\ [][NextClassify]_vars

(***************************************************************************)
(* Specification of the recent-message listing: the history response has   *)
(* no 'history' key, and messages().list returns any listing, the messages *)
(* being of any age.                                                       *)
(***************************************************************************)
\* the messages the mailbox holds
RecentPool == {"g1", "g2", "g3", "s1", "n1", "x1"}

\* now - internalDate, in milliseconds
Ages == {0, 299999, 300000}

InitRecent ==
    /\ InitClassify
    /\ gmail_address = MeTo
    /\ workflows["A"].step = 0

RecentItemChoices == {[fp |-> "none", age |-> a] : a \in Ages}
                       \cup {[fp |-> "get", age |-> 0]}

RECURSIVE RecentItems(_)
RecentItems(n) ==
    IF n = 0 THEN {<<>>}
    ELSE {Append(rest, c) : rest \in RecentItems(n - 1), c \in RecentItemChoices}

RecentListing ==
    /\ last.op = "init"
    /\ \E T \in SUBSET RecentPool :
         LET asc == [i \in 1..Cardinality(T) |->
                       SortByPos({MessageOf(id) : id \in T})[i].id]
             ids == Reverse(asc)
         IN \E items \in RecentItems(Len(ids)) :
              LET st == pubsub_listener(Current, TRUE, 150,
                                        [kind |-> "empty", ids |-> <<>>],
                                        [kind |-> "messages", ids |-> ids], items)
              IN /\ workflows' = st.wf
                 /\ processed_messages' = st.proc
                 /\ sent' = st.sent
                 /\ reached' = st.reached
                 /\ caused' = st.caused
                 /\ writes' = st.writes
                 /\ last' = [op |-> "recent", ids |-> ids, items |-> items,
                             handed |-> st.handed, listed |-> st.listed,
                             ret |-> ""]
                 /\ UNCHANGED <<gmail_address, transport, openers, workers, restarts, app>>

NextRecent == RecentListing

SpecRecent == InitRecent /\ [][NextRecent]_vars

(***************************************************************************)
(* Specification of send_reply_email alone: the thread holds any of the    *)
(* messages of thread A, and the follow-up to one of its genuine messages  *)
(* is sent in it.                                                          *)
(***************************************************************************)
ThreadPool == {"g1", "g2", "s1", "n1", "x1"}

InitReply ==
    /\ workflows \in {w \in Tables : DOMAIN w = {"A"} /\ w["A"].thread_id = "A"}
    /\ processed_messages = {}
    /\ gmail_address \in {MeTo, <<>>}
    /\ \E T \in SUBSET ThreadPool :
         /\ T # {}
         /\ transport = [threads |-> {"A"}, ids |-> T, batch |-> 1]
    /\ sent = [t \in ThreadIds |->
                IF t \in DOMAIN workflows THEN SentUpTo(workflows[t].step)
                ELSE [k \in 1..3 |-> 0]]
    /\ reached = [t \in ThreadIds |-> [n \in 0..4 |-> 0]]
    /\ openers = [t \in ThreadIds |-> IF t \in DOMAIN workflows THEN 1 ELSE 0]
    /\ caused = [id \in MsgIds |-> [commits |-> 0, sends |-> 0]]
    /\ writes = [t \in ThreadIds |->
                  IF t \in DOMAIN workflows THEN WritesUpTo(workflows[t].step)
                  ELSE <<>>]
    /\ last = [op |-> "init", ids |-> <<>>, ok |-> TRUE, fresh |-> FALSE,
               again |-> FALSE, ret |-> "", step |-> 0]
    /\ workers = <<>>
    /\ restarts = 0
    /\ app = <<>>

SendReply ==
    /\ last.op = "init"
    /\ workflows["A"].step \in 0..2
    /\ \E trigger \in {id \in transport.ids :
                          Classification(Lower(ProfileAddress), MessageOf(id).from,
                                         MessageOf(id).to) = "Genuine"} :
         \E fp \in {"none", "thread", "profile2", "send"} :
           LET body == workflows["A"].step + 1
               r == send_reply_email(Current, "A", body, trigger, fp)
           IN /\ sent' = r.st.sent
              /\ caused' = r.st.caused
              /\ last' = [op |-> "reply", ids |-> <<trigger>>, ok |-> ~r.raised,
                          target |-> r.st.target, ret |-> ""]
              /\ UNCHANGED <<workflows, processed_messages, gmail_address,
                             transport, reached, openers, writes, workers,
                             restarts, app>>

NextReply == SendReply

SpecReply == InitReply /\ [][NextReply]_vars

(***************************************************************************)
(* Specification of a process without GMAIL_ADDRESS: thread A is tracked   *)
(* at any step,                                                            *)
(* notifications resolve to one message each, and last.queries counts the  *)
(* getProfile queries made since the process started.                      *)
(***************************************************************************)
\* number of getProfile queries after which no notification is explored
MaxQueries == 3

InitProfile ==
    /\ InitClassify
    /\ gmail_address = <<>>

QueriesSoFar == IF last.op = "handled" THEN last.queries ELSE 0

HandleNotification ==
    /\ QueriesSoFar < MaxQueries
    /\ \E id \in transport.ids :
         \E fp \in CallsFor[id][TRUE] :
           LET st == pubsub_listener(Current, TRUE, 150,
                                     [kind |-> "history", ids |-> <<id>>],
                                     NoRecent, <<[fp |-> fp, age |-> 0]>>)
           IN /\ workflows' = st.wf
              /\ processed_messages' = st.proc
              /\ sent' = st.sent
              /\ reached' = st.reached
              /\ caused' = st.caused
              /\ writes' = st.writes
              /\ last' = [op |-> "handled", ids |-> <<id>>, ok |-> (fp = "none"),
                          queries |-> QueriesSoFar + st.profile, ret |-> ""]
              /\ UNCHANGED <<gmail_address, transport, openers, workers, restarts, app>>

NextProfile == HandleNotification

SpecProfile == InitProfile /\ [][NextProfile]_vars

(***************************************************************************)
(* Specification of the history path with several added messages: thread A *)
(* is tracked at any step, one notification lists up to three messages,    *)
(* and any one external call may fail while each of them is handled.       *)
(***************************************************************************)
BatchSize == 3

InitBatch ==
    /\ workflows \in {w \in Tables : DOMAIN w = {"A"} /\ w["A"].thread_id = "A"}
    /\ processed_messages = {}
    /\ gmail_address = MeTo
    /\ transport = [threads |-> {"A"}, ids |-> {"g1", "g2", "g3"}, batch |-> BatchSize]
    /\ sent = [t \in ThreadIds |->
                IF t \in DOMAIN workflows THEN SentUpTo(workflows[t].step)
                ELSE [k \in 1..3 |-> 0]]
    /\ reached = [t \in ThreadIds |-> [n \in 0..4 |-> 0]]
    /\ openers = [t \in ThreadIds |-> IF t \in DOMAIN workflows THEN 1 ELSE 0]
    /\ caused = [id \in MsgIds |-> [commits |-> 0, sends |-> 0]]
    /\ writes = [t \in ThreadIds |->
                  IF t \in DOMAIN workflows THEN WritesUpTo(workflows[t].step)
                  ELSE <<>>]
    /\ last = [op |-> "init", ids |-> <<>>, ok |-> TRUE, fresh |-> FALSE,
               again |-> FALSE, ret |-> "", step |-> 0]
    /\ workers = <<>>
    /\ restarts = 0
    /\ app = <<>>

HistoryBatch ==
    /\ last.op = "init"
    /\ \E ids \in Listings(Deliverable, transport.batch) :
         \E items \in Items(ids, FALSE) :
           LET st == pubsub_listener(Current, TRUE, 150,
                                     [kind |-> "history", ids |-> ids],
                                     NoRecent, items)
           IN /\ workflows' = st.wf
              /\ processed_messages' = st.proc
              /\ sent' = st.sent
              /\ reached' = st.reached
              /\ caused' = st.caused
              /\ writes' = st.writes
              /\ last' = [op |-> "batch", ids |-> ids, items |-> items,
                          order |-> st.order, ok |-> AllOk(items), ret |-> ""]
              /\ UNCHANGED <<gmail_address, transport, openers, workers, restarts, app>>

NextBatch == HistoryBatch

SpecBatch == InitBatch /\ [][NextBatch]_vars

(***************************************************************************)
(* The modules beside the workflow system.  In their specifications the    *)
(* workflow system is constructed and never called.                        *)
(***************************************************************************)
WorkflowSystemIdle ==
    /\ workflows = <<>>
    /\ processed_messages = {}
    /\ gmail_address = MeTo
    /\ transport = [threads |-> {}, ids |-> {}, batch |-> 1]
    /\ sent = [t \in ThreadIds |-> [k \in 1..3 |-> 0]]
    /\ reached = [t \in ThreadIds |-> [n \in 0..4 |-> 0]]
    /\ openers = [t \in ThreadIds |-> 0]
    /\ caused = [id \in MsgIds |-> [commits |-> 0, sends |-> 0]]
    /\ writes = [t \in ThreadIds |-> <<>>]
    /\ last = [op |-> "init", ids |-> <<>>, ok |-> TRUE, fresh |-> FALSE,
               again |-> FALSE, ret |-> "", step |-> 0]
    /\ workers = <<>>
    /\ restarts = 0

wsvars == <<workflows, processed_messages, gmail_address, transport, sent,
            reached, openers, caused, writes, last, workers, restarts>>

(***************************************************************************)
(* database.py: DatabaseManager.store_message.  db.users is the set of     *)
(* emails in table "users", db.messages the set of (thread_id, message_id) *)
(* in table "messages"; user_data and message_data are given by the keys   *)
(* they hold and the values of their identifying keys; user_outcome and    *)
(* message_outcome tell how each upsert ends: "ok", "error" (the response  *)
(* carries an error) or "raise".                                           *)
(***************************************************************************)
UserKeys == {"email", "name"}
MessageKeys == {"thread_id", "message_id", "sender", "body", "subject", "timestamp"}

Emails == {"bob", "amy"}
StoredMessageIds == {"m1"}
UserDataChoices == SUBSET UserKeys
MessageDataChoices ==
    {MessageKeys, MessageKeys \ {"thread_id"}, MessageKeys \ {"timestamp"}, {}}
UpsertOutcomes == {"ok", "error", "raise"}

\* the body of the try block; exc is the exception that leaves it, wrote
\* the tables written
store_message_try(db, user_data, message_data, user_outcome, message_outcome) ==
    IF ~(UserKeys \subseteq user_data.keys)
    THEN [exc |-> "KeyError", ret |-> <<>>, db |-> db, wrote |-> <<>>]
    ELSE IF user_outcome = "raise"
    THEN [exc |-> "Exception", ret |-> <<>>, db |-> db, wrote |-> <<>>]
    ELSE IF user_outcome = "error"
    THEN [exc |-> "none", ret |-> <<FALSE, "Error upserting user">>, db |-> db,
          wrote |-> <<>>]
    ELSE
      LET db1 == [db EXCEPT !.users = @ \cup {user_data.email}]
      IN IF ~(MessageKeys \subseteq message_data.keys)
         THEN [exc |-> "KeyError", ret |-> <<>>, db |-> db1, wrote |-> <<"users">>]
         ELSE IF message_outcome = "raise"
         THEN [exc |-> "Exception", ret |-> <<>>, db |-> db1, wrote |-> <<"users">>]
         ELSE IF message_outcome = "error"
         THEN [exc |-> "none", ret |-> <<FALSE, "Error inserting message">>,
               db |-> db1, wrote |-> <<"users">>]
         ELSE [exc |-> "none", ret |-> <<TRUE, "None">>,
               db |-> [db1 EXCEPT !.messages =
                         @ \cup {<<message_data.thread_id, message_data.message_id>>}],
               wrote |-> <<"users", "messages">>]

\* variant: only the KeyError handler is present
store_message_keyerror(db, user_data, message_data, user_outcome, message_outcome) ==
    LET r == store_message_try(db, user_data, message_data, user_outcome,
                               message_outcome)
    IN IF r.exc = "KeyError"
       THEN [raised |-> FALSE, ret |-> <<FALSE, "Missing required data field">>,
             db |-> r.db, wrote |-> r.wrote]
       ELSE IF r.exc = "Exception"
       THEN [raised |-> TRUE, ret |-> <<FALSE, "">>, db |-> r.db, wrote |-> r.wrote]
       ELSE [raised |-> FALSE, ret |-> r.ret, db |-> r.db, wrote |-> r.wrote]

store_message(db, user_data, message_data, user_outcome, message_outcome) ==
    LET r == store_message_try(db, user_data, message_data, user_outcome,
                               message_outcome)
    IN IF r.exc = "KeyError"
       THEN [raised |-> FALSE, ret |-> <<FALSE, "Missing required data field">>,
             db |-> r.db, wrote |-> r.wrote]
       ELSE IF r.exc = "Exception"
       THEN [raised |-> FALSE, ret |-> <<FALSE, "An unexpected error occurred">>,
             db |-> r.db, wrote |-> r.wrote]
       ELSE [raised |-> FALSE, ret |-> r.ret, db |-> r.db, wrote |-> r.wrote]

InitDB ==
    /\ WorkflowSystemIdle
    /\ app = [op |-> "init", db |-> [users |-> {}, messages |-> {}]]

StoreMessage ==
    \E ukeys \in UserDataChoices, email \in Emails :
      \E mkeys \in MessageDataChoices, message_id \in StoredMessageIds :
        \E user_outcome \in UpsertOutcomes, message_outcome \in UpsertOutcomes :
          LET user_data == [keys |-> ukeys, email |-> email]
              message_data == [keys |-> mkeys, thread_id |-> "A",
                               message_id |-> message_id]
              r == store_message(app.db, user_data, message_data,
                                 user_outcome, message_outcome)
          IN /\ app' = [op |-> "store", db |-> r.db, user_data |-> user_data,
                        message_data |-> message_data,
                        user_outcome |-> user_outcome,
                        message_outcome |-> message_outcome,
                        raised |-> r.raised, ret |-> r.ret, wrote |-> r.wrote]
             /\ UNCHANGED wsvars

NextDB == StoreMessage

SpecDB == InitDB /\ [][NextDB]_vars

(***************************************************************************)
(* gmail_utils.py: wait_for_user_response, called by main after send_email.*)
(* app.mailbox is the mailbox, newest message first; "O" is the original   *)
(* email and "R" the reply, both of thread "T"; "p" and "n1", "n2", ...    *)
(* are messages of other conversations.  app.elapsed counts the check      *)
(* intervals slept since start_time; app.baseline records the newest       *)
(* message at the baseline listing, app.failed that a transport call       *)
(* failed.                                                                 *)
(***************************************************************************)
\* timeout / check_interval: the number of intervals before the timeout
TimeoutIntervals == 3

\* number of messages of other conversations that arrive
MaxOthers == 5

\* maxResults=5
ListLimit == 5

ThreadOf(id) == IF id \in {"O", "R"} THEN "T" ELSE "U"

NoResult == [kind |-> "none", message_id |-> ""]

\* variant: every new message counts as a reply
IsSameThread_any(thread_id, original_thread_id) == TRUE

\* thread_id == original_thread_id
IsSameThread(thread_id, original_thread_id) == thread_id = original_thread_id

\* the loop over current_messages: the id of the message returned, "" if
\* the loop ends without returning
RECURSIVE ScanMessages(_, _, _, _, _)
ScanMessages(current_messages, i, last_message_id, email_id, original_thread_id) ==
    IF i > Len(current_messages) THEN ""
    ELSE IF current_messages[i] = last_message_id THEN ""
    ELSE IF current_messages[i] = email_id
    THEN ScanMessages(current_messages, i + 1, last_message_id, email_id,
                      original_thread_id)
    ELSE IF IsSameThread(ThreadOf(current_messages[i]), original_thread_id)
    THEN current_messages[i]
    ELSE ScanMessages(current_messages, i + 1, last_message_id, email_id,
                      original_thread_id)

InitWait ==
    /\ WorkflowSystemIdle
    /\ \E mailbox \in {<<>>, <<"p">>} :
         app = [pc |-> "main", mailbox |-> mailbox, others |-> 0,
                email_id |-> "", original_thread_id |-> "",
                last_message_id |-> "", baseline |-> "", elapsed |-> 0,
                failed |-> FALSE, result |-> NoResult]

\* main: email_id = send_email(...)
SendEmail ==
    /\ app.pc = "main"
    /\ app' = [app EXCEPT !.pc = "original", !.email_id = "O",
                          !.mailbox = <<"O">> \o @]
    /\ UNCHANGED wsvars

\* a message arrives after the original email was sent and before the
\* timeout
Arrive ==
    /\ app.pc \in {"original", "baseline", "loop"}
    /\ app.elapsed < TimeoutIntervals
    /\ \/ /\ \A i \in 1..Len(app.mailbox) : app.mailbox[i] # "R"
          /\ app' = [app EXCEPT !.mailbox = <<"R">> \o @]
       \/ /\ app.others < MaxOthers
          /\ app' = [app EXCEPT !.mailbox = <<"n" \o ToString(app.others + 1)>> \o @,
                                !.others = @ + 1]
    /\ UNCHANGED wsvars

Fail == [app EXCEPT !.pc = "done", !.failed = TRUE,
                    !.result = [kind |-> "error", message_id |-> ""]]

\* original_msg = messages().get(id=email_id)
GetOriginal ==
    /\ app.pc = "original"
    /\ \/ app' = [app EXCEPT !.pc = "baseline",
                             !.original_thread_id = ThreadOf(app.email_id)]
       \/ app' = Fail
    /\ UNCHANGED wsvars

\* initial_results = messages().list(maxResults=1); start_time = time.time()
ListBaseline ==
    /\ app.pc = "baseline"
    /\ \/ LET newest == IF app.mailbox = <<>> THEN "" ELSE app.mailbox[1]
          IN app' = [app EXCEPT !.pc = "loop", !.last_message_id = newest,
                                !.baseline = newest, !.elapsed = 0]
       \/ app' = Fail
    /\ UNCHANGED wsvars

\* one pass of the while loop: sleep, list, scan
Poll ==
    /\ app.pc = "loop"
    /\ app.elapsed < TimeoutIntervals
    /\ \/ LET current_messages ==
                SubSeq(app.mailbox, 1, Min(ListLimit, Len(app.mailbox)))
              found == ScanMessages(current_messages, 1, app.last_message_id,
                                    app.email_id, app.original_thread_id)
          IN IF current_messages = <<>> \/ current_messages[1] = app.last_message_id
             THEN app' = [app EXCEPT !.elapsed = @ + 1]
             ELSE IF found # ""
             THEN app' = [app EXCEPT !.elapsed = @ + 1, !.pc = "done",
                                     !.result = [kind |-> "success",
                                                 message_id |-> found]]
             ELSE app' = [app EXCEPT !.elapsed = @ + 1,
                                     !.last_message_id = current_messages[1]]
       \/ \* except HttpError: sleep once more and continue
          app' = [app EXCEPT !.elapsed = @ + 2, !.failed = TRUE]
       \/ \* any other exception
          app' = [Fail EXCEPT !.elapsed = @ + 1]
    /\ UNCHANGED wsvars

\* the loop condition fails: 'Timeout reached'
TimeoutReached ==
    /\ app.pc = "loop"
    /\ app.elapsed >= TimeoutIntervals
    /\ app' = [app EXCEPT !.pc = "done",
                          !.result = [kind |-> "timeout", message_id |-> ""]]
    /\ UNCHANGED wsvars

NextWait ==
    \/ SendEmail
    \/ Arrive
    \/ GetOriginal
    \/ ListBaseline
    \/ Poll
    \/ TimeoutReached

SpecWait == InitWait /\ [][NextWait]_vars

(***************************************************************************)
(* chat_manager.py: ChatApplication.process_user_input.  app.context is    *)
(* ChatContext.messages.  A requested tool call is given by its id and by  *)
(* what happens to it: "ok" (the tool returns), "unknown" (no tool of that *)
(* name is registered), "fails" (the tool raises) or "badargs" (its        *)
(* arguments are not valid JSON).                                          *)
(***************************************************************************)
\* number of turns explored
MaxTurns == 2

\* largest number of tool calls in one response
MaxToolCalls == 2

ToolCallKinds == {"ok", "unknown", "fails", "badargs"}

Entry(role, tool_call_id, content) ==
    [role |-> role, tool_call_id |-> tool_call_id, content |-> content]

\* response.tool_calls of the first model call
ToolCallLists ==
    UNION {[1..n -> ToolCallKinds] : n \in 0..MaxToolCalls}

ToolCall(kinds, i) == [id |-> "c" \o ToString(i), kind |-> kinds[i]]

\* the loop over response.tool_calls
RECURSIVE RunToolCalls(_, _, _)
RunToolCalls(context, kinds, i) ==
    IF i > Len(kinds) THEN [raised |-> FALSE, context |-> context]
    ELSE LET tool_call == ToolCall(kinds, i)
         IN IF tool_call.kind = "badargs"
            THEN [raised |-> TRUE, context |-> context]
            ELSE IF tool_call.kind = "ok"
            THEN RunToolCalls(Append(context, Entry("tool", tool_call.id, "result")),
                              kinds, i + 1)
            ELSE RunToolCalls(Append(context, Entry("tool", tool_call.id, "error")),
                              kinds, i + 1)

process_user_input(context, kinds) ==
    LET asked == Append(Append(context, Entry("user", "", "input")),
                        Entry("assistant", "", "response"))
    IN IF kinds = <<>>
       THEN [raised |-> FALSE, context |-> asked, model_calls |-> 1]
       ELSE LET r == RunToolCalls(asked, kinds, 1)
            IN IF r.raised
               THEN [raised |-> TRUE, context |-> r.context, model_calls |-> 1]
               ELSE [raised |-> FALSE,
                     context |-> Append(r.context, Entry("assistant", "", "final")),
                     model_calls |-> 2]

InitChat ==
    /\ WorkflowSystemIdle
    /\ app = [op |-> "init", context |-> <<Entry("system", "", "system")>>,
              turns |-> 0]

ProcessUserInput ==
    /\ app.turns < MaxTurns
    /\ \E kinds \in ToolCallLists :
         LET r == process_user_input(app.context, kinds)
         IN app' = [op |-> "turn", context |-> r.context, turns |-> app.turns + 1,
                    kinds |-> kinds, before |-> Len(app.context),
                    raised |-> r.raised, model_calls |-> r.model_calls]
    /\ UNCHANGED wsvars

NextChat == ProcessUserInput

SpecChat == InitChat /\ [][NextChat]_vars

(***************************************************************************)
(* Specification of concurrent callbacks: the subscriber runs the callback *)
(* on its pool of threads, and nothing in the class takes a lock.  Each    *)
(* worker handles one inbound message; a step of a worker is the code      *)
(* between two points where another thread can run.                        *)
(***************************************************************************)
Workers == {1, 2}

IdleWorker == [pc |-> "idle", id |-> "", step |-> 0, status |-> ""]


InitConc ==
    /\ workflows \in {w \in Tables : DOMAIN w = {"A"} /\ w["A"].thread_id = "A"}
    /\ processed_messages = {}
    /\ gmail_address = MeTo
    /\ transport = [threads |-> {"A"}, ids |-> {"g1", "g2", "g3"}, batch |-> 1]
    /\ sent = [t \in ThreadIds |->
                IF t \in DOMAIN workflows THEN SentUpTo(workflows[t].step)
                ELSE [k \in 1..3 |-> 0]]
    /\ reached = [t \in ThreadIds |-> [n \in 0..4 |-> 0]]
    /\ openers = [t \in ThreadIds |-> IF t \in DOMAIN workflows THEN 1 ELSE 0]
    /\ caused = [id \in MsgIds |-> [commits |-> 0, sends |-> 0]]
    /\ writes = [t \in ThreadIds |->
                  IF t \in DOMAIN workflows THEN WritesUpTo(workflows[t].step)
                  ELSE <<>>]
    /\ last = [op |-> "init", ids |-> <<>>, ok |-> TRUE, fresh |-> FALSE,
               again |-> FALSE, ret |-> "", step |-> 0]
    /\ workers = [w \in Workers |-> IdleWorker]
    /\ restarts = 0
    /\ app = <<>>

Goto(w, pc) == workers' = [workers EXCEPT ![w].pc = pc]

ApplyConc(st) ==
    /\ workflows' = st.wf
    /\ processed_messages' = st.proc
    /\ sent' = st.sent
    /\ reached' = st.reached
    /\ caused' = st.caused
    /\ writes' = st.writes
    /\ UNCHANGED <<gmail_address, transport, openers, last, restarts, app>>

\* the callback is invoked with a notification that resolves to message id
Receive(w) ==
    /\ workers[w].pc = "idle"
    /\ \E id \in transport.ids : workers' = [workers EXCEPT ![w].pc = "entry", ![w].id = id]
    /\ ApplyConc(Current)

\* process_incoming_message up to the query of the table
PimEntry(w) ==
    /\ workers[w].pc = "entry"
    /\ LET message  == MessageOf(workers[w].id)
           my_email == Lower(gmail_address)
       IN IF AlreadyProcessed(processed_messages, message.id)
          THEN Goto(w, "done") /\ ApplyConc(Current)
          ELSE IF \/ IsSelfEcho(my_email, message.from)
                  \/ IsNoReply(message.from)
                  \/ IsMisrouted(my_email, message.to)
          THEN Goto(w, "done") /\ ApplyConc(MarkProcessed(Current, message.id))
          ELSE Goto(w, "load") /\ ApplyConc(Current)

\* workflow_state = self.load_workflow_state(thread_id)
PimLoad(w) ==
    /\ workers[w].pc = "load"
    /\ LET message == MessageOf(workers[w].id)
           workflow_state == load_workflow_state(workflows, message.threadId, TRUE)
       IN IF workflow_state = <<>>
          THEN Goto(w, "done") /\ ApplyConc(MarkProcessed(Current, message.id))
          ELSE /\ workers' = [workers EXCEPT ![w].pc = "guard",
                                             ![w].step = workflow_state[1].step,
                                             ![w].status = workflow_state[1].status]
               /\ ApplyConc(Current)

\* the completed guard and the test of the step marker
PimGuard(w) ==
    /\ workers[w].pc = "guard"
    /\ LET message == MessageOf(workers[w].id)
       IN IF IsCompleted(workers[w].step, workers[w].status)
          THEN Goto(w, "done") /\ ApplyConc(MarkProcessed(Current, message.id))
          ELSE IF StepAlreadyProcessed(processed_messages, message.threadId, workers[w].step)
          THEN Goto(w, "done") /\ ApplyConc(Current)
          ELSE Goto(w, "mark") /\ ApplyConc(Current)

\* the two processed_messages.add calls before workflow_manager
PimMark(w) ==
    /\ workers[w].pc = "mark"
    /\ LET message == MessageOf(workers[w].id)
       IN /\ Goto(w, "reload")
          /\ ApplyConc(MarkProcessed(MarkProcessed(Current, message.id),
                                     StepKey(message.threadId, workers[w].step)))

\* workflow_manager: the re-read of the row and the choice of the branch
WmReload(w) ==
    /\ workers[w].pc = "reload"
    /\ LET thread_id == MessageOf(workers[w].id).threadId
           step == workers[w].step
           st == [Current EXCEPT !.reached[thread_id][step] = @ + 1]
           current_workflow == load_workflow_state(workflows, thread_id, TRUE)
       IN /\ ApplyConc(st)
          /\ IF current_workflow = <<>> THEN Goto(w, "done")
             ELSE IF StepMismatch(current_workflow, step) THEN Goto(w, "done")
             ELSE IF step \in 0..2 THEN Goto(w, "send")
             ELSE IF step = 3 THEN Goto(w, "save")
             ELSE Goto(w, "done")

\* self.send_reply_email('me', thread_id, "Testing testing - Follow-up #k")
WmSend(w) ==
    /\ workers[w].pc = "send"
    /\ LET message == MessageOf(workers[w].id)
           r == send_reply_email(Current, message.threadId, workers[w].step + 1,
                                 message.id, "none")
       IN Goto(w, "save") /\ ApplyConc(r.st)

\* self.save_workflow_state(thread_id, step=k, status=...)
WmSave(w) ==
    /\ workers[w].pc = "save"
    /\ LET message == MessageOf(workers[w].id)
           thread_id == message.threadId
           step == workers[w].step
           s == save_workflow_state(workflows, thread_id, step + 1, StatusOf(step + 1), TRUE)
       IN /\ Goto(w, "done")
          /\ ApplyConc([Current EXCEPT !.wf = s.wf,
                                       !.caused[message.id].commits = @ + 1,
                                       !.writes[thread_id] = Append(@, step + 1)])

\* the callback returns and its thread takes the next notification
Finish(w) ==
    /\ workers[w].pc = "done"
    /\ workers' = [workers EXCEPT ![w] = IdleWorker]
    /\ ApplyConc(Current)

NextConc ==
    \E w \in Workers :
      \/ Receive(w)
      \/ Finish(w)
      \/ PimEntry(w)
      \/ PimLoad(w)
      \/ PimGuard(w)
      \/ PimMark(w)
      \/ WmReload(w)
      \/ WmSend(w)
      \/ WmSave(w)

SpecConc == InitConc /\ [][NextConc]_vars

(***************************************************************************)
(* Properties.                                                             *)
(***************************************************************************)
\* the mailbox's own address, as the classification compares it
Own == Lower(ProfileAddress)

\* a message that passes the sender, automation and recipient filters
Genuine(m) ==
    /\ ~Contains(Own, Lower(m.from))
    /\ ~Contains(NoReply1, Lower(m.from))
    /\ ~Contains(NoReply2, Lower(m.from))
    /\ Contains(Own, Lower(m.to))

Tracked(t) == t \in DOMAIN workflows

\* C1: for every thread T and step n in {0,1,2}, at most one follow-up is
\* ever sent for the transition n -> n+1, and at most one message reaches
\* workflow_manager for the marker (T, n).
C1_OneFollowupPerStep ==
    \A t \in ThreadIds : \A n \in 0..2 : sent[t][n + 1] <= 1 /\ reached[t][n] <= 1

\* a follow-up went out for step n, its commit failed, and a later, distinct
\* genuine reply of the thread was delivered without failure and held back
C1_Witness ==
    \E t \in ThreadIds : \E n \in 0..2 :
      /\ Tracked(t) /\ workflows[t].step = n /\ sent[t][n + 1] = 1
      /\ last.op = "notify" /\ last.ok /\ last.fresh /\ Len(last.ids) = 1
      /\ MessageOf(last.ids[1]).threadId = t /\ Genuine(MessageOf(last.ids[1]))
      /\ last.ids[1] \notin processed_messages

\* C2: for every conversation the step values committed over time start
\* at 0, each later one is the previous one plus 1, none exceeds 4, and the
\* persisted step is the last of them.
C2_StepByOne ==
    \A t \in ThreadIds :
      /\ \A i \in 1..Len(writes[t]) : writes[t][i] = i - 1 /\ writes[t][i] <= 4
      /\ Tracked(t) <=> writes[t] # <<>>
      /\ Tracked(t) => workflows[t].step = writes[t][Len(writes[t])]

\* a conversation ran to step 4 and an already applied message was
\* delivered again
C2_Witness ==
    /\ Tracked("A") /\ workflows["A"].step = 4
    /\ last.op = "notify" /\ last.again /\ ~last.fresh

\* C3: over all deliveries of a notification, each inbound message causes
\* at most one step transition and at most one outgoing message.
C3_RedeliveryIdempotent ==
    \A id \in MsgIds : caused[id].commits <= 1 /\ caused[id].sends <= 1

\* the same notification was delivered twice in a row and its message had
\* advanced the conversation
C3_Witness ==
    /\ last.op = "notify" /\ last.again /\ ~last.fresh /\ Len(last.ids) = 1
    /\ caused[last.ids[1]].commits = 1 /\ caused[last.ids[1]].sends = 1

\* C4: workflow_manager called with a step different from the step
\* persisted for the thread sends no message and leaves the table unchanged.
C4_MismatchIsNoop ==
    [][(/\ last'.op = "wm"
        /\ Tracked(last'.ret)
        /\ workflows[last'.ret].step # last'.step)
       => (workflows' = workflows /\ sent' = sent)]_vars

\* workflow_manager was called, all external calls succeeding, with a step
\* other than the persisted one
C4_Witness ==
    /\ last.op = "wm" /\ last.ok
    /\ Tracked(last.ret) /\ workflows[last.ret].step # last.step

\* a notification resolving to the single message id, not seen before
Single(id) == last'.op = "notify" /\ last'.ids = <<id>> /\ last'.fresh

OthersUnsent(t) == \A u \in ThreadIds \ {t} : sent'[u] = sent[u]

\* one follow-up, number n + 1, was sent in thread t and step n + 1 committed
Advanced(t, n) ==
    /\ workflows'[t].step = n + 1
    /\ workflows'[t].status = "sent_followup_" \o ToString(n + 1)
    /\ sent'[t] = [sent[t] EXCEPT ![n + 1] = @ + 1]
    /\ OthersUnsent(t)

\* C5 as stated: a genuine reply not seen before, processed without any
\* failing call for a tracked thread at step n in {0,1,2}, sends exactly one
\* follow-up and commits {step: n+1, status: "sent_followup_<n+1>"}.
C5_AsStated ==
    [][\A id \in MsgIds :
         LET m == MessageOf(id)
             t == m.threadId
         IN (/\ Single(id) /\ last'.ok /\ Genuine(m)
             /\ Tracked(t) /\ workflows[t].step \in 0..2)
            => Advanced(t, workflows[t].step)]_vars

\* C5 (amended): the same, provided no earlier message of this process
\* lifetime reached workflow_manager for the thread at step n (the marker
\* "<thread>_step_<n>" is not in the processed set).
C5_AdvanceUnlessMarked ==
    [][\A id \in MsgIds :
         LET m == MessageOf(id)
             t == m.threadId
         IN (/\ Single(id) /\ last'.ok /\ Genuine(m)
             /\ Tracked(t) /\ workflows[t].step \in 0..2
             /\ StepKey(t, workflows[t].step) \notin processed_messages)
            => Advanced(t, workflows[t].step)]_vars

\* a new genuine reply was processed without failure and advanced its thread
C5_Witness ==
    /\ last.op = "notify" /\ last.ok /\ last.fresh /\ Len(last.ids) = 1
    /\ Genuine(MessageOf(last.ids[1]))
    /\ caused[last.ids[1]] = [commits |-> 1, sends |-> 1]
    /\ Tracked(MessageOf(last.ids[1]).threadId)
    /\ workflows[MessageOf(last.ids[1]).threadId].step \in 1..3

\* a thread at step 4 has had its opener and exactly follow-ups 1, 2 and 3
CompletedHasThree ==
    \A t \in ThreadIds :
      (Tracked(t) /\ workflows[t].step = 4)
        => (sent[t] = [k \in 1..3 |-> 1] /\ openers[t] = 1)

Completed(t) ==
    /\ workflows'[t].step = 4
    /\ workflows'[t].status = "completed"
    /\ sent' = sent

C7_TerminalImmutable ==
    [][\A t \in ThreadIds :
         (Tracked(t) /\ (workflows[t].step >= 4 \/ workflows[t].status = "completed"))
           => (/\ t \in DOMAIN workflows'
               /\ workflows'[t] = workflows[t]
               /\ sent'[t] = sent[t])]_vars

\* a genuine reply not seen before was processed, without failure, for a
\* thread that was already completed
C7_Witness ==
    /\ last.op = "notify" /\ last.ok /\ last.fresh /\ Len(last.ids) = 1
    /\ Genuine(MessageOf(last.ids[1]))
    /\ MessageOf(last.ids[1]).threadId = "A"
    /\ last.ids[1] \in processed_messages
    /\ caused[last.ids[1]].commits = 0
    /\ Tracked("A") /\ workflows["A"].step = 4

\* C8: when send_initial_email returns a thread id, the row of that thread
\* is {step: 0, status: "sent_initial"} and one opener was sent for it.
C8_InitialRecord ==
    (last.op = "start" /\ last.ret # "")
      => (/\ Tracked(last.ret)
          /\ workflows[last.ret].step = 0
          /\ workflows[last.ret].status = "sent_initial"
          /\ openers[last.ret] = 1)

C8_Witness == last.op = "start" /\ last.ret = "A" /\ Tracked("A")

NoEffect(id) == caused[id] = [commits |-> 0, sends |-> 0]

\* C9: an inbound message whose From header contains the own address,
\* compared case-insensitively, never causes a transition or a send.
C9_SelfEchoInert ==
    \A id \in MsgIds : Contains(Own, Lower(MessageOf(id).from)) => NoEffect(id)

\* the echoed message of a tracked thread was processed and recorded
C9_Witness ==
    /\ "s1" \in processed_messages /\ Tracked("A")
    /\ Contains(Own, Lower(MessageOf("s1").from))

\* C10: an inbound message whose To header does not contain the own
\* address never causes a transition or a send, tracked thread or not.
C10_MisroutedInert ==
    \A id \in MsgIds : ~Contains(Own, Lower(MessageOf(id).to)) => NoEffect(id)

\* the message addressed to somebody else, in a tracked thread, was
\* processed and recorded
C10_Witness ==
    /\ "x1" \in processed_messages /\ Tracked("A")
    /\ ~Contains(Own, Lower(MessageOf("x1").to))

\* C11: a notification never creates a row for a thread that has none and
\* never sends a follow-up in such a thread.
C11_UntrackedInert ==
    [][last'.op = "notify"
         => \A t \in ThreadIds :
              ~Tracked(t) => (t \notin DOMAIN workflows' /\ sent'[t] = sent[t]
                              /\ writes'[t] = writes[t])]_vars

\* a genuine reply in a thread whose opener went out but whose row was never
\* written was processed without failure and recorded
C11_Witness ==
    /\ last.op = "notify" /\ last.ok /\ last.fresh /\ Len(last.ids) = 1
    /\ Genuine(MessageOf(last.ids[1]))
    /\ ~Tracked(MessageOf(last.ids[1]).threadId)
    /\ openers[MessageOf(last.ids[1]).threadId] = 1
    /\ last.ids[1] \in processed_messages

\* messages of thread t that committed a step without sending anything
SilentCommits(t) ==
    {id \in MsgIds : /\ MessageOf(id).threadId = t
                     /\ caused[id] = [commits |-> 1, sends |-> 0]}

\* C12: a thread whose step k in {1,2,3} was committed has had follow-up k
\* sent, and the only message that commits without sending is the one that
\* completes the thread (3 -> 4).
C12_SendBeforeCommit ==
    \A t \in ThreadIds :
      /\ \A k \in 1..3 : Len(writes[t]) > k => sent[t][k] = 1
      /\ SilentCommits(t) # {}
           => (/\ Tracked(t) /\ workflows[t].step = 4
               /\ Cardinality(SilentCommits(t)) = 1)

\* a genuine reply reached workflow_manager at the persisted step n in
\* {0,1,2}, an external call failed, nothing was sent and the step stayed n
C12_Witness ==
    /\ last.op = "notify" /\ ~last.ok /\ last.fresh /\ Len(last.ids) = 1
    /\ Genuine(MessageOf(last.ids[1]))
    /\ MessageOf(last.ids[1]).threadId = "A"
    /\ NoEffect(last.ids[1])
    /\ Tracked("A") /\ workflows["A"].step \in 0..2
    /\ reached["A"][workflows["A"].step] = 1
    /\ sent["A"][workflows["A"].step + 1] = 0

\* C13: whatever the interleaving of the callback threads, at most one
\* follow-up is sent for each step of a thread.
C13_AsStated ==
    \A t \in ThreadIds : \A k \in 1..3 : sent[t][k] <= 1

\* C14: every notification handed to the callback is acknowledged, never
\* negatively acknowledged, whatever its payload and whatever call fails.
C14_AsStated ==
    last.op = "callback" => last.ack = "ack"

\* C18: whenever the history request fails or returns no history, the
\* listener goes on to list the recent messages.
C18_AsStated ==
    (last.op = "callback" /\ last.hist \in {"error", "empty"}) => last.listed

\* C19: after a notification with marker h whose history request succeeded,
\* the stored checkpoint is h and the next history request starts from h.
C19_AsStated ==
    [][/\ (last'.op = "callback" /\ last'.hist \in {"history", "empty"})
            => last'.stored = last'.h
       /\ (/\ last.op = "callback" /\ last.hist \in {"history", "empty"}
           /\ last'.op = "callback" /\ last'.hist # "none")
            => last'.start = last.h]_vars

\* C15: a notification resolving to one message of thread t, whatever
\* fails while it is handled, is acknowledged (nothing was raised out of
\* pubsub_listener) and leaves every other thread's row and follow-ups as
\* they were.
C15_OtherThreadsUntouched ==
    [][\A id \in MsgIds :
         (last'.op = "callback" /\ last'.ids = <<id>>)
           => /\ last'.ack = "ack"
              /\ \A u \in ThreadIds \ {MessageOf(id).threadId} :
                   /\ Tracked(u) <=> u \in DOMAIN workflows'
                   /\ Tracked(u) => workflows'[u] = workflows[u]
                   /\ sent'[u] = sent[u]]_vars

\* with both threads tracked, a reply of thread A advanced A
C15_Witness ==
    /\ last.op = "callback" /\ last.ids = <<"g1">>
    /\ caused["g1"].commits = 1
    /\ Tracked("A") /\ workflows["A"].step = 1
    /\ Tracked("B") /\ workflows["B"].step = 0

\* C16: once workflow_manager has been reached for a thread at its
\* persisted step n and the row is still at step n (the send or the commit
\* failed), no later operation changes the row, sends in the thread or
\* reaches workflow_manager for it again.
C16_StalledStepStays ==
    [][\A t \in ThreadIds : \A n \in 0..3 :
         (Tracked(t) /\ workflows[t].step = n /\ reached[t][n] >= 1)
           => /\ t \in DOMAIN workflows'
              /\ workflows'[t] = workflows[t]
              /\ sent'[t] = sent[t]
              /\ reached'[t] = reached[t]]_vars

\* the attempt at step n sent nothing and committed nothing, and a later
\* genuine reply not seen before was delivered without failure and left
\* unrecorded
C16_Witness ==
    \E n \in 0..2 :
      /\ Tracked("A") /\ workflows["A"].step = n
      /\ reached["A"][n] = 1 /\ sent["A"][n + 1] = 0
      /\ last.op = "notify" /\ last.ok /\ last.fresh /\ Len(last.ids) = 1
      /\ MessageOf(last.ids[1]).threadId = "A" /\ Genuine(MessageOf(last.ids[1]))
      /\ last.ids[1] \notin processed_messages

\* C17: a notification resolving to a message that has already committed
\* a step transition changes no row and sends nothing, also when the
\* process was restarted in between.
C17_AsStated ==
    [][\A id \in MsgIds :
         (last'.op = "notify" /\ last'.ids = <<id>> /\ caused[id].commits >= 1)
           => (workflows' = workflows /\ sent' = sent)]_vars

\* C20: while the stored step of a thread is outside 0..4, no operation
\* changes its row, commits anything for it or sends in it.
C20_CorruptStepInert ==
    [][\A t \in ThreadIds :
         (Tracked(t) /\ workflows[t].step \notin 0..4)
           => /\ t \in DOMAIN workflows'
              /\ workflows'[t] = workflows[t]
              /\ writes'[t] = writes[t]
              /\ sent'[t] = sent[t]]_vars

\* a genuine reply not seen before was handled without failure for a thread
\* stored at a negative step, and workflow_manager was reached for it
C20_Witness ==
    /\ last.op = "notify" /\ last.ok /\ last.fresh /\ last.ids = <<"g1">>
    /\ Tracked("A") /\ workflows["A"].step < 0
    /\ workflows["A"].status # "completed"
    /\ reached["A"][workflows["A"].step] = 1
    /\ "g1" \in processed_messages

\* C21: no operation removes a row; a row appears only through
\* send_initial_email; the row of a thread changes only in a notification
\* in which workflow_manager ran for that thread.
C21_RecordsOnlyGrow ==
    [][/\ DOMAIN workflows \subseteq DOMAIN workflows'
       /\ DOMAIN workflows' # DOMAIN workflows => last'.op = "start"
       /\ \A t \in DOMAIN workflows :
            workflows'[t] # workflows[t]
              => (last'.op = "callback" /\ reached'[t] # reached[t])]_vars

\* the row of thread B was created while thread A, created earlier, had
\* been advanced
C21_Witness ==
    /\ last.op = "start" /\ last.ret = "B"
    /\ Tracked("A") /\ workflows["A"].step >= 1
    /\ Tracked("B") /\ workflows["B"].step = 0

\* C22: whatever the interleaving of the callback threads, the persisted
\* step of a thread never decreases.
C22_AsStated ==
    [][\A t \in DOMAIN workflows :
         t \in DOMAIN workflows' /\ workflows'[t].step >= workflows[t].step]_vars

\* the class the ordered rule list gives to a From and a To header
RuleClass(from_header, to_header) ==
    IF Contains(Own, Lower(from_header)) THEN "SelfEcho"
    ELSE IF \/ Contains(<<"n", "o", "r", "e", "p", "l", "y">>, Lower(from_header))
            \/ Contains(<<"n", "o", "-", "r", "e", "p", "l", "y">>, Lower(from_header))
         THEN "Automated"
    ELSE IF ~Contains(Own, Lower(to_header)) THEN "MisRouted"
    ELSE "Genuine"

\* C23: for every From and To header the branch taken is the one the
\* ordered rule list names; workflow_manager is reached only for a Genuine
\* message; a message of another class, not seen before, is recorded and
\* has no effect; a Genuine one, not seen before, of a thread whose step
\* is not marked and not completed reaches workflow_manager.
C23_OrderedRules ==
    [][last'.op = "classify" =>
         LET rule == RuleClass(last'.from, last'.to)
             id   == last'.ids[1]
             n    == workflows["A"].step
         IN /\ last'.class = rule
            /\ reached' # reached => rule = "Genuine"
            /\ (rule # "Genuine" /\ last'.fresh)
                 => /\ processed_messages' = processed_messages \cup {id}
                    /\ workflows' = workflows /\ sent' = sent
            /\ (/\ rule = "Genuine" /\ last'.fresh /\ n \in 0..3
                /\ StepKey("A", n) \notin processed_messages)
                 => reached'["A"][n] = reached["A"][n] + 1]_vars

\* a message whose From holds both the own address and "no-reply", and
\* whose To is somebody else, took the first branch
C23_Witness ==
    /\ last.op = "classify" /\ last.class = "SelfEcho" /\ last.fresh
    /\ Contains(<<"n", "o", "-", "r", "e", "p", "l", "y">>, Lower(last.from))
    /\ ~Contains(Own, Lower(last.to))
    /\ last.ids[1] \in processed_messages

\* C24: a notification handled while no checkpoint is stored makes no
\* history request (no start id is used) and is reconciled through the
\* recent-message listing.
C24_AsStated ==
    (last.op = "callback" /\ last.data = "notification" /\ last.stored = 0)
        => (last.start = 0 /\ last.listed)

\* C25: after a notification reconciled through the recent listing, every
\* message handed to process_incoming_message is one of the first 5 listed
\* and less than 5 minutes old, and no message 5 minutes old or older has
\* been processed.
C25_FallbackWindow ==
    last.op = "recent" =>
      /\ \A id \in last.handed :
           \E i \in 1..Len(last.ids) :
             /\ i <= 5
             /\ last.ids[i] = id
             /\ last.items[i].age < 5 * 60 * 1000
      /\ \A i \in 1..Len(last.ids) :
           (i > 5 \/ last.items[i].age >= 5 * 60 * 1000)
              => last.ids[i] \notin processed_messages

\* six messages were listed: the second was exactly five minutes old, the
\* sixth was new, and the other four were handed over
C25_Witness ==
    /\ last.op = "recent" /\ last.listed
    /\ Len(last.ids) = 6
    /\ last.items[2].age = 300000
    /\ last.items[6].age = 0
    /\ last.handed = {last.ids[1], last.ids[3], last.ids[4], last.ids[5]}
    /\ last.handed \subseteq processed_messages

\* C26: a follow-up is built from the most recent message of the thread
\* that is genuine (not from the own address, not automated, addressed to
\* the own address), whatever the thread holds.
C26_AsStated ==
    (last.op = "reply" /\ last.target # "") =>
       LET m == MessageOf(last.target)
       IN /\ Genuine(m)
          /\ \A id \in transport.ids :
               Genuine(MessageOf(id)) => MessageOf(id).pos <= m.pos

\* C27: one call of send_initial_email sends at most one opener; the table
\* changes only when the opener was sent, and then by the step-0 row of its
\* thread; when the send fails nothing is written; when the send or the
\* commit fails the call raises (no thread id is returned) and at most the
\* one opener went out.
C27_OpenerThenRecord ==
    [][last'.op = "start" =>
         LET opened == {t \in ThreadIds : openers'[t] # openers[t]}
         IN /\ Cardinality(opened) <= 1
            /\ \A t \in opened : openers'[t] = openers[t] + 1
            /\ workflows' # workflows
                 => \E t \in opened :
                      /\ DOMAIN workflows' = DOMAIN workflows \cup {t}
                      /\ workflows'[t] = [thread_id |-> t, step |-> 0,
                                          status |-> "sent_initial"]
                      /\ \A u \in DOMAIN workflows \ {t} : workflows'[u] = workflows[u]
            /\ opened = {} => (workflows' = workflows /\ last'.ret = "")
            /\ ~last'.ok => (workflows' = workflows /\ last'.ret = "")
            /\ last'.ok => (opened = {last'.ret} /\ last'.ret \in DOMAIN workflows')]_vars

\* the opener of thread A went out once, its commit failed: the call raised
\* and thread A has no record
C27_Witness ==
    /\ last.op = "start" /\ ~last.ok /\ last.ret = ""
    /\ openers["A"] = 1 /\ openers["B"] = 0
    /\ ~Tracked("A")

\* C29: in a process without a configured address, the profile is queried
\* at most once over all the notifications handled.
C29_AsStated ==
    last.op = "handled" => last.queries <= 1

\* C30: in every reachable state, handling a genuine message not seen
\* before while the workflow lookup fails sends nothing, writes nothing and
\* records the message id, exactly as if its thread had no record; handling
\* the same message again, the lookup working, changes nothing.
C30_LookupErrorInert ==
    \A id \in Deliverable :
      (Genuine(MessageOf(id)) /\ id \notin processed_messages) =>
         LET m == MessageOf(id)
             r == process_incoming_message(Current, m, "load")
             u == process_incoming_message([Current EXCEPT !.wf = <<>>], m, "none")
         IN /\ r.wf = workflows /\ r.sent = sent /\ r.writes = writes
            /\ r.caused = caused /\ r.reached = reached
            /\ r.proc = processed_messages \cup {id}
            /\ r = [u EXCEPT !.wf = workflows]
            /\ process_incoming_message(r, m, "none") = r

\* the lookup failed while g1 was handled: thread A is tracked at step 0,
\* g1 is recorded, workflow_manager was not reached and step 0 is unmarked
C30_Witness ==
    /\ last.op = "callback" /\ ~last.ok /\ last.ids = <<"g1">>
    /\ "g1" \in processed_messages
    /\ Tracked("A") /\ workflows["A"].step = 0
    /\ reached["A"][0] = 0
    /\ StepKey("A", 0) \notin processed_messages
    /\ NoEffect("g1")

\* C31: in every reachable state the status of every workflow record is
\* the one that belongs to its step: "sent_initial" with step 0,
\* "sent_followup_n" with step n in 1..3, "completed" with step 4.
C31_StatusMatchesStep ==
    \A t \in DOMAIN workflows :
      LET w == workflows[t]
      IN /\ w.step \in 0..4
         /\ (w.status = "sent_initial") <=> (w.step = 0)
         /\ (w.status = "sent_followup_1") <=> (w.step = 1)
         /\ (w.status = "sent_followup_2") <=> (w.step = 2)
         /\ (w.status = "sent_followup_3") <=> (w.step = 3)
         /\ (w.status = "completed") <=> (w.step = 4)

\* the conversation of thread A went through every step and is completed
C31_Witness ==
    /\ Tracked("A")
    /\ workflows["A"].step = 4 /\ workflows["A"].status = "completed"
    /\ writes["A"] = <<0, 1, 2, 3, 4>>

RECURSIVE Fetched(_, _)
\* the listed messages whose fetch succeeded, in the order of the listing
Fetched(ids, items) ==
    IF ids = <<>> THEN <<>>
    ELSE (IF Head(items).fp = "get" THEN <<>> ELSE <<Head(ids)>>)
           \o Fetched(Tail(ids), Tail(items))

\* C32: a notification of the history path hands every added message whose
\* fetch succeeded to process_incoming_message, in the order of the
\* listing, whatever fails for the other messages; in particular, when
\* the first message fails and the thread has no step marker, the first
\* of the later messages that is handled without failure reaches
\* workflow_manager.
C32_FailureDoesNotStopBatch ==
    [][last'.op = "batch" =>
         LET ids   == last'.ids
             items == last'.items
             n     == workflows["A"].step
         IN /\ last'.order = Fetched(ids, items)
            /\ (/\ Len(ids) >= 2 /\ n \in 0..3
                /\ items[1].fp \in {"get", "load"}
                /\ items[2].fp = "none")
                 => reached'["A"][n] = reached["A"][n] + 1]_vars

\* the fetch of g1 failed, then g2 and g3 were handled in this order: g2
\* advanced thread A from step 0 to step 1 and g3 from step 1 to step 2
C32_Witness ==
    /\ last.op = "batch" /\ last.ids = <<"g1", "g2", "g3">>
    /\ last.items[1].fp = "get"
    /\ last.order = <<"g2", "g3">>
    /\ writes["A"] = <<0, 1, 2>>
    /\ caused["g2"].commits = 1 /\ caused["g3"].commits = 1
    /\ "g1" \notin processed_messages

\* C33: handling a notification without historyId makes no history
\* request and no listing, hands no message over, changes neither the
\* processed set nor any workflow record nor what was sent, and the
\* notification is acknowledged.
C33_NoHistoryIdInert ==
    [][(last'.op = "callback" /\ last'.data = "nohistory") =>
          /\ last'.start = 0 /\ ~last'.listed /\ last'.ids = <<>>
          /\ processed_messages' = processed_messages
          /\ workflows' = workflows
          /\ sent' = sent /\ reached' = reached /\ caused' = caused
          /\ last'.ack = "ack"]_vars

\* a notification without historyId was acknowledged while thread A was
\* tracked and a message had been processed
C33_Witness ==
    /\ last.op = "callback" /\ last.data = "nohistory" /\ last.ack = "ack"
    /\ Tracked("A") /\ workflows["A"].step = 1
    /\ "g1" \in processed_messages

\* C34: no step of a process lifetime removes an element of the processed
\* set: every message id and every step marker recorded before the step is
\* recognised by the duplicate tests after it.
C34_ProcessedOnlyGrows ==
    [][/\ processed_messages \subseteq processed_messages'
       /\ \A id \in MsgIds :
            AlreadyProcessed(processed_messages, id)
               => AlreadyProcessed(processed_messages', id)
       /\ \A t \in ThreadIds : \A n \in 0..4 :
            StepAlreadyProcessed(processed_messages, t, n)
               => StepAlreadyProcessed(processed_messages', t, n)]_vars

\* two message ids and a step marker are recorded together
C34_Witness ==
    /\ last.op = "callback"
    /\ {"g1", "x1", StepKey("A", 0)} \subseteq processed_messages

\* C35: a call of store_message never raises; it returns (True, None)
\* exactly when both records hold every required key and both upserts
\* succeeded, and (False, error text) otherwise; the message record is not
\* written when the user upsert reported an error or a required key of
\* either record is missing.
C35_StoreMessageTotal ==
    [][app'.op = "store" =>
         LET complete == /\ {"email", "name"} \subseteq app'.user_data.keys
                         /\ {"thread_id", "message_id", "sender", "body",
                             "subject", "timestamp"} \subseteq app'.message_data.keys
             both_ok  == app'.user_outcome = "ok" /\ app'.message_outcome = "ok"
         IN /\ ~app'.raised
            /\ (app'.ret = <<TRUE, "None">>) <=> (complete /\ both_ok)
            /\ ~(complete /\ both_ok)
                 => (app'.ret[1] = FALSE /\ app'.ret[2] # "None")
            /\ (app'.user_outcome = "error" \/ ~complete)
                 => /\ app'.db.messages = app.db.messages
                    /\ \A i \in 1..Len(app'.wrote) : app'.wrote[i] # "messages"]_vars

\* the user was stored, the message record lacked its timestamp: the call
\* returned (False, text) and no message was stored
C35_Witness ==
    /\ app.op = "store" /\ ~app.raised
    /\ app.user_outcome = "ok"
    /\ app.user_data.keys = {"email", "name"}
    /\ "timestamp" \notin app.message_data.keys
    /\ app.ret = <<FALSE, "Missing required data field">>
    /\ app.wrote = <<"users">>
    /\ app.db.messages = {}

C37_AsStated ==
    (/\ app.pc = "done" /\ ~app.failed
     /\ \E i \in 1..Len(app.mailbox) : app.mailbox[i] = "R")
        => app.result = [kind |-> "success", message_id |-> "R"]

\* C38: a turn whose first response requests n > 0 tool calls does not
\* raise, appends to the context the user entry, the assistant entry, one
\* tool entry per requested call in request order (the result of a tool
\* that returned, an error text otherwise) and the final assistant entry,
\* and makes exactly one model call after the first.
C38_AsStated ==
    (app.op = "turn" /\ Len(app.kinds) > 0) =>
       LET n == Len(app.kinds)
           b == app.before
       IN /\ ~app.raised
          /\ app.model_calls = 2
          /\ Len(app.context) = b + 3 + n
          /\ \A i \in 1..n :
               /\ app.context[b + 2 + i].role = "tool"
               /\ app.context[b + 2 + i].tool_call_id = "c" \o ToString(i)
               /\ app.context[b + 2 + i].content
                    = (IF app.kinds[i] = "ok" THEN "result" ELSE "error")
          /\ app.context[b + 3 + n].role = "assistant"

====
